---- MODULE Spec2Model ----
(***************************************************************************)
(* Matchmaking engine, game session manager and rating service of the      *)
(* mmo-engine API (src/api/services/GameService.js, PlayerService.js,      *)
(* the bus client in src/api/middleware/rateLimiter.js and the socket      *)
(* wiring in src/unnamed/part_002).                                        *)
(*                                                                         *)
(* The Redis store, the in-memory activeGames maps, the timers and the     *)
(* in-flight async handlers are the state; every handler is an action, or  *)
(* a chain of actions cut at the awaits where other handlers interleave.   *)
(***************************************************************************)
EXTENDS Integers, Sequences, FiniteSets, TLC

(***************************************************************************)
(* Bounds of the model.                                                    *)
(***************************************************************************)
MaxSteps == 1       \* clock advances per behaviour
StepMs == 10000     \* milliseconds per clock advance
MaxQueue == 2       \* queue entries over all modes
MaxGames == 1       \* game ids uuidv4 hands out
MaxTicks == 1       \* matchmaking ticks in flight at once
MaxLog == 2         \* length of an observed event log
MaxDisconnects == 1 \* sockets that disconnect
MaxInFlight == 1    \* join_queue handlers in flight at once
MaxRated == 2       \* rating updates of one player on behalf of one game
MaxExpired == 1     \* player records whose TTL runs out
MaxPending == 2     \* getGame calls of handleGameAction waiting for the store
MaxCalls == 2       \* updatePlayerRating calls in flight at once
MaxStarted == 3     \* updatePlayerRating calls per behaviour
MaxBatch == 2       \* matches one tick creates
MaxAllowed == 2     \* requests the rate limiter admits per window
MaxAllowCalls == 2  \* isAllowed calls in flight at once
MaxChecked == 3     \* isAllowed calls per behaviour
MaxMs == 2          \* single milliseconds the clock moves after an advance

(***************************************************************************)
(* Program constants.                                                      *)
(***************************************************************************)
DefaultRating == 1000       \* player.ratings[gameMode] || 1000, and createPlayer
RatingFloor == 100          \* Math.max(100, newRating)
EloK == 32                  \* this.eloK
BaseRatingDiff == 100       \* maxRatingDiff = 100 + ...
RatingDiffPerWait == 30     \* ... Math.floor(waitTime / 10000) * 30
WaitUnitMs == 10000
MinMembers == 2             \* if (members.length < 2) return
DefaultPlayersPerMatch == 2 \* config[gameMode] || 2
LeaderboardLimit == 100     \* getLeaderboard(gameMode = 'global', limit = 100)

GameModes == <<"fps", "chess", "moba", "rts">>
Modes == {GameModes[i] : i \in 1..Len(GameModes)}
\* A mode name a client can send that is none of the four, and the Redis
\* keys queue:<gameMode> that addToQueue can write.
OtherModes == {"ctf"}
QueueKeys == Modes \cup OtherModes

getPlayersPerMatch(gameMode) ==
    CASE gameMode = "fps" -> 10
      [] gameMode = "chess" -> 2
      [] gameMode = "moba" -> 10
      [] gameMode = "rts" -> 2
      [] OTHER -> DefaultPlayersPerMatch

(***************************************************************************)
(* Identities.  Strings cannot be compared by TLC, so every kind of        *)
(* identity has a rank that stands for its lexicographic position.         *)
(***************************************************************************)
PlayerOrder == <<"p1", "p2", "p3", "p4">>
PlayerIds == {PlayerOrder[i] : i \in 1..Len(PlayerOrder)}
SocketOrder == <<"s1", "s2", "s3">>
Sockets == {SocketOrder[i] : i \in 1..Len(SocketOrder)}
Insts == {"mm", "srv"}   \* MatchmakingService.gameService, GameServer.gameService
GameIds == 1..(MaxGames + MaxBatch - 1)

Rank(order, x) == CHOOSE i \in 1..Len(order) : order[i] = x

NoPrefs == [region |-> "", timeControl |-> ""]   \* {} : no recognised key set
\* in the order of their JSON text: {"region":"eu"} < {"region":"us"} <
\* {"timeControl":"10+0"} < {"timeControl":"5+0"} < {}
PrefOrder == << [region |-> "eu", timeControl |-> ""],
                [region |-> "us", timeControl |-> ""],
                [region |-> "", timeControl |-> "10+0"],
                [region |-> "", timeControl |-> "5+0"],
                NoPrefs >>
AllPrefs == {PrefOrder[i] : i \in 1..Len(PrefOrder)}

NoPlayer == [id |-> "none"]       \* RedisClient.get gives null
NoGame == [id |-> 0]

LexLess(a, b) ==
    \E i \in 1..Len(a) : a[i] < b[i] /\ \A j \in 1..(i - 1) : a[j] = b[j]

Max(a, b) == IF a >= b THEN a ELSE b
Abs(x) == IF x >= 0 THEN x ELSE -x
Range(f) == {f[i] : i \in DOMAIN f}

(***************************************************************************)
(* Rating calculation (PlayerService.updatePlayerRating, lines 45-57).     *)
(*   expectedScore = 1 / (1 + 10^((opponent - current) / 400))             *)
(*   newRating = Math.round(current + 32 * (actualScore - expectedScore))  *)
(* current is an integer, so newRating = current + Math.round(32 * (...)). *)
(* WinThreshold[k] is the least d = opponent - current at which            *)
(* 32 * (1 - expectedScore) >= k - 1/2, i.e. at which a win gains at least *)
(* k points; the gain of a win is the number of thresholds at or below d.  *)
(* A loss at d loses what a win at -d gains, and a draw gains 16 less than *)
(* a win.                                                                  *)
(***************************************************************************)
WinThreshold ==
    << -719, -523, -428, -364, -314, -273, -237, -205, -176, -149, -124,
       -100, -77, -54, -32, -10, 11, 33, 55, 78, 101, 125, 150, 177, 206,
       238, 274, 315, 365, 429, 524, 720 >>

\* A variant of WinGain that gives a win the points of a draw.
WinGainAsDraw(d) ==
    Cardinality({k \in 1..EloK : WinThreshold[k] <= d}) - (EloK \div 2)

WinGain(d) == Cardinality({k \in 1..EloK : WinThreshold[k] <= d})

RatingDelta(currentRating, opponentRating, result) ==
    LET d == opponentRating - currentRating
    IN  CASE result = "win" -> WinGain(d)
          [] result = "loss" -> -WinGain(-d)
          [] result = "draw" -> WinGain(d) - (EloK \div 2)

\* A variant of NewRating without the floor.
NewRatingNoFloor(currentRating, opponentRating, result) ==
    currentRating + RatingDelta(currentRating, opponentRating, result)

NewRating(currentRating, opponentRating, result) ==
    Max(RatingFloor, currentRating + RatingDelta(currentRating, opponentRating, result))

(***************************************************************************)
(* Queue entries.  The sorted set queue:<mode> holds JSON strings; a       *)
(* string is modelled as the tuple of its fields in the order              *)
(* JSON.stringify writes them, an object as a record.                      *)
(***************************************************************************)
Stringify(o) ==
    <<o.id, o.username, o.rating, o.preferences, o.socketId, o.joinedAt,
      o.searchExpansion>>

Parse(str) ==
    [id |-> str[1], username |-> str[2], rating |-> str[3],
     preferences |-> str[4], socketId |-> str[5], joinedAt |-> str[6],
     searchExpansion |-> str[7]]

\* The position of a member in its sorted set: the score (the rating), then
\* the member's text.
ZKey(str) ==
    <<str[3], Rank(PlayerOrder, str[1]), Rank(PrefOrder, str[4]),
      Rank(SocketOrder, str[5]), str[6]>>

RECURSIVE zRange(_)
zRange(set) ==
    IF set = {} THEN <<>>
    ELSE LET m == CHOOSE x \in set :
                    \A y \in set \ {x} : LexLess(ZKey(x), ZKey(y))
         IN  <<m>> \o zRange(set \ {m})

\* players.sort((a, b) => a.joinedAt - b.joinedAt): a stable sort.
RECURSIVE SortIdx(_, _)
SortIdx(seq, I) ==
    IF I = {} THEN <<>>
    ELSE LET i == CHOOSE i \in I : \A k \in I \ {i} :
                    \/ seq[i].joinedAt < seq[k].joinedAt
                    \/ seq[i].joinedAt = seq[k].joinedAt /\ i < k
         IN  <<seq[i]>> \o SortIdx(seq, I \ {i})

\* A variant of SortByJoinedAt that leaves the order as it is.
SortByJoinedAtNot(seq) == seq

SortByJoinedAt(seq) == SortIdx(seq, DOMAIN seq)

checkFPSCompatibility(player1, player2) ==
    ~ ( /\ player1.preferences.region # ""
        /\ player2.preferences.region # ""
        /\ player1.preferences.region # player2.preferences.region )

\* A variant of checkChessCompatibility that asks player2 to share the
\* time control of player1 and not the other way round.
checkChessCompatibilityOneSided(player1, player2) ==
    ~ ( /\ player1.preferences.timeControl # ""
        /\ player1.preferences.timeControl # player2.preferences.timeControl )

checkChessCompatibility(player1, player2) ==
    ~ ( /\ player1.preferences.timeControl # ""
        /\ player2.preferences.timeControl # ""
        /\ player1.preferences.timeControl # player2.preferences.timeControl )

\* A variant of maxRatingDiff that narrows with the wait.
maxRatingDiffNarrowing(waitTime) ==
    BaseRatingDiff - (waitTime \div WaitUnitMs) * RatingDiffPerWait

\* 100 + Math.floor(waitTime / 10000) * 30
maxRatingDiff(waitTime) ==
    BaseRatingDiff + (waitTime \div WaitUnitMs) * RatingDiffPerWait

\* A variant of arePlayersCompatible that takes the shorter of the two waits.
arePlayersCompatibleShortWait(player1, player2, gameMode, t) ==
    LET ratingDiff == Abs(player1.rating - player2.rating)
        waitTime == -Max(player1.joinedAt - t, player2.joinedAt - t)
    IN  IF ratingDiff > maxRatingDiff(waitTime) THEN FALSE
        ELSE CASE gameMode = "fps" -> checkFPSCompatibility(player1, player2)
               [] gameMode = "chess" -> checkChessCompatibility(player1, player2)
               [] OTHER -> TRUE

\* t is Date.now() at the call.
arePlayersCompatible(player1, player2, gameMode, t) ==
    LET ratingDiff == Abs(player1.rating - player2.rating)
        waitTime == Max(t - player1.joinedAt, t - player2.joinedAt)
    IN  IF ratingDiff > maxRatingDiff(waitTime) THEN FALSE
        ELSE CASE gameMode = "fps" -> checkFPSCompatibility(player1, player2)
               [] gameMode = "chess" -> checkChessCompatibility(player1, player2)
               [] OTHER -> TRUE

\* The inner loop of findMatches: j runs from i + 1 while the group is not full.
RECURSIVE FillGroup(_, _, _, _, _, _, _)
FillGroup(players, i, j, potentialMatch, usedPlayers, gameMode, t) ==
    IF j > Len(players) \/ Len(potentialMatch) >= getPlayersPerMatch(gameMode)
    THEN [potentialMatch |-> potentialMatch, usedPlayers |-> usedPlayers]
    ELSE IF players[j].id \in usedPlayers
    THEN FillGroup(players, i, j + 1, potentialMatch, usedPlayers, gameMode, t)
    ELSE IF arePlayersCompatible(players[i], players[j], gameMode, t)
    THEN FillGroup(players, i, j + 1, Append(potentialMatch, players[j]),
                   usedPlayers \cup {players[j].id}, gameMode, t)
    ELSE FillGroup(players, i, j + 1, potentialMatch, usedPlayers, gameMode, t)

\* The outer loop of findMatches over the sorted players.
RECURSIVE Groups(_, _, _, _, _, _)
Groups(players, i, usedPlayers, matches, gameMode, t) ==
    IF i > Len(players) THEN matches
    ELSE IF players[i].id \in usedPlayers
    THEN Groups(players, i + 1, usedPlayers, matches, gameMode, t)
    ELSE LET g == FillGroup(players, i, i + 1, <<players[i]>>,
                            usedPlayers \cup {players[i].id}, gameMode, t)
         IN  IF Len(g.potentialMatch) = getPlayersPerMatch(gameMode)
             THEN Groups(players, i + 1, g.usedPlayers,
                         Append(matches, g.potentialMatch), gameMode, t)
             ELSE Groups(players, i + 1,
                         g.usedPlayers \ {p.id : p \in Range(g.potentialMatch)},
                         matches, gameMode, t)

\* A variant of findMatches that returns the first group only.
findMatchesFirstGroup(players, gameMode, t) ==
    SubSeq(Groups(SortByJoinedAt(players), 1, {}, <<>>, gameMode, t), 1, 1)

findMatches(players, gameMode, t) ==
    Groups(SortByJoinedAt(players), 1, {}, <<>>, gameMode, t)

(***************************************************************************)
(* State.                                                                  *)
(***************************************************************************)
VARIABLES
    now,          \* Date.now(), in milliseconds
    channel,      \* RabbitMQClient.channel: "null", "open" or "closed"
    players,      \* Redis player:<id>, NoPlayer when the key is absent
    leaderboard,  \* Redis leaderboard:<key>: a set of <<playerId, score>>
    queue,        \* Redis queue:<mode>: a set of entry strings
    games,        \* Redis game:<id>, NoGame when the key is absent
    activeGames,  \* GameService.activeGames of each of the two instances
    timers,       \* pending setTimeout callbacks of the GameService instances
    nextGame,     \* the next id uuidv4 hands out
    connected,    \* io.sockets.sockets: the sockets still connected
    tick,         \* the processMatchmaking calls in flight
    req,          \* the join_queue handler of each socket, when it is in flight
    updates,      \* the game_update events each GameService instance emitted
    rated,        \* history: the rating updates endGame made, per game and player
    ratingCalls,  \* the updatePlayerRating calls made from outside endGame
    nCalls,       \* history: how many of those calls have begun
    pending,      \* the getGame calls of handleGameAction waiting for the store
    refused,      \* history: the queued entries whose join was answered error
    rateLimit,    \* Redis rate_limit:<identifier>: a set of <<member, score>>
    allowCalls,   \* the RateLimiter.isAllowed calls in flight
    verdicts,     \* history: what the isAllowed calls returned, in order
    last          \* the handler step taken last and what it showed its caller

vars == <<now, channel, players, leaderboard, queue, games, activeGames,
          timers, nextGame, connected, tick, req, updates, rated, ratingCalls,
          nCalls, pending, refused, rateLimit, allowCalls, verdicts, last>>

storeVars == <<players, leaderboard, queue, games>>
gameVars == <<games, activeGames, timers, updates>>

Undefined == <<>>          \* an absent optional field
Some(x) == <<x>>

Idle == [pc |-> "idle"]
TickSlots == 1..MaxTicks
CallSlots == 1..MaxCalls
AllowSlots == 1..MaxAllowCalls
\* req.ip of the requests the rate limiter sees.
Identifiers == {"ip1", "ip2"}
MaxNow == MaxSteps * StepMs

Username(playerId) == <<"user", playerId>>

\* The members of all the queue:<mode> sets q.
Queued(q) == UNION {q[m] : m \in QueueKeys}

QueueSize == Cardinality(Queued(queue))

(***************************************************************************)
(* PlayerService.                                                          *)
(***************************************************************************)
NewPlayer(playerId, t) ==
    [id |-> playerId,
     username |-> Username(playerId),
     ratings |-> [m \in Modes |-> DefaultRating],
     stats |-> [gamesPlayed |-> 0, wins |-> 0, losses |-> 0, draws |-> 0],
     lastActive |-> t]

getPlayer(playerId) == players[playerId]

\* zAdd of one member on a sorted set held as <<member, score>> pairs.
zAddScore(set, member, score) ==
    {e \in set : e[1] # member} \cup {<<member, score>>}

\* A variant of RatedPlayer that leaves gamesPlayed alone on a draw.
RatedPlayerDrawUncounted(player, gameMode, opponentRating, result, t) ==
    [player EXCEPT
        !.ratings[gameMode] = NewRating(@, opponentRating, result),
        !.stats.gamesPlayed = IF result = "draw" THEN @ ELSE @ + 1,
        !.stats.wins = IF result = "win" THEN @ + 1 ELSE @,
        !.stats.losses = IF result = "loss" THEN @ + 1 ELSE @,
        !.stats.draws = IF result \notin {"win", "loss"} THEN @ + 1 ELSE @,
        !.lastActive = t]

\* The record updatePlayerRating persists for a player it found.
RatedPlayer(player, gameMode, opponentRating, result, t) ==
    [player EXCEPT
        !.ratings[gameMode] = NewRating(@, opponentRating, result),
        !.stats.gamesPlayed = @ + 1,
        !.stats.wins = IF result = "win" THEN @ + 1 ELSE @,
        !.stats.losses = IF result = "loss" THEN @ + 1 ELSE @,
        !.stats.draws = IF result \notin {"win", "loss"} THEN @ + 1 ELSE @,
        !.lastActive = t]

\* The methods of the RedisClient wrapper the services import.
RedisClientMethods ==
    {"init", "disconnect", "get", "set", "setEx", "del", "exists", "expire",
     "zAdd", "zRem", "zRange", "zRevRange", "zCard", "zRemRangeByScore",
     "incr", "decr", "ping"}

\* ZREVRANGE key 0 limit-1 WITHSCORES: by falling score, members of one
\* score in falling order of their text.
RECURSIVE zRevRangeWithScores(_, _)
zRevRangeWithScores(set, limit) ==
    IF set = {} \/ limit <= 0 THEN <<>>
    ELSE LET m == CHOOSE x \in set : \A y \in set \ {x} :
                    \/ x[2] > y[2]
                    \/ x[2] = y[2] /\ Rank(PlayerOrder, x[1]) > Rank(PlayerOrder, y[1])
         IN  <<m>> \o zRevRangeWithScores(set \ {m}, limit - 1)

\* getLeaderboard: it calls RedisClient.zRevRangeWithScores, which the
\* wrapper does not have, so the call throws a TypeError; with the method
\* it lists the members whose player record exists, ranked by position.
getLeaderboard(gameMode, limit) ==
    IF "zRevRangeWithScores" \notin RedisClientMethods
    THEN [threw |-> TRUE, list |-> <<>>]
    ELSE LET playersWithScores == zRevRangeWithScores(leaderboard[gameMode], limit)
             all == [i \in DOMAIN playersWithScores |->
                       [rank |-> i, playerId |-> playersWithScores[i][1],
                        rating |-> playersWithScores[i][2]]]
             Found(e) == players[e.playerId] # NoPlayer
             found == SelectSeq(all, Found)
         IN  [threw |-> FALSE,
              list |-> [k \in DOMAIN found |->
                  [rank |-> found[k].rank,
                   playerId |-> found[k].playerId,
                   username |-> players[found[k].playerId].username,
                   rating |-> found[k].rating,
                   gamesPlayed |-> players[found[k].playerId].stats.gamesPlayed]]]

(***************************************************************************)
(* The bus (RabbitMQClient).  connect() opens the channel; publish throws  *)
(* when the channel is not initialised, and amqplib's channel.publish      *)
(* throws on a closed channel.                                             *)
(***************************************************************************)
PublishThrows == channel # "open"

\* GameServer.start: the server listens, and sockets connect, only once
\* RabbitMQClient.connect() has returned.
Listening == channel # "null"

BusConnect ==
    /\ channel = "null"
    /\ channel' = "open"
    /\ last' = [op |-> "bus_connect"]
    /\ UNCHANGED <<rateLimit, allowCalls, verdicts,
                   ratingCalls, nCalls,
                   pending, refused, now, players, leaderboard, queue, games, activeGames,
                   timers, nextGame, connected, tick, req, updates, rated>>

BusClose ==
    /\ channel = "open"
    /\ channel' = "closed"
    /\ last' = [op |-> "bus_close"]
    /\ UNCHANGED <<rateLimit, allowCalls, verdicts,
                   ratingCalls, nCalls,
                   pending, refused, now, players, leaderboard, queue, games, activeGames,
                   timers, nextGame, connected, tick, req, updates, rated>>

Advance ==
    /\ now + StepMs <= MaxNow
    /\ now' = now + StepMs
    /\ last' = [op |-> "advance"]
    /\ UNCHANGED <<rateLimit, allowCalls, verdicts,
                   ratingCalls, nCalls,
                   pending, refused, channel, players, leaderboard, queue, games, activeGames,
                   timers, nextGame, connected, tick, req, updates, rated>>

(***************************************************************************)
(* GameService.createGame: the record it persists and keeps in memory.     *)
(* config (getGameConfig) is static per mode and read by no handler; it is *)
(* left out of the record.                                                 *)
(***************************************************************************)
NewGame(gameId, matchPlayers, gameMode, t) ==
    [id |-> gameId,
     players |-> [i \in DOMAIN matchPlayers |->
                    [id |-> matchPlayers[i].id,
                     username |-> matchPlayers[i].username,
                     rating |-> matchPlayers[i].rating,
                     socketId |-> matchPlayers[i].socketId]],
     gameMode |-> gameMode,
     status |-> "starting",
     createdAt |-> t,
     startedAt |-> Undefined,
     endedAt |-> Undefined,
     result |-> Undefined]

StartTimer(inst, gameId) == [kind |-> "start", inst |-> inst, gameId |-> gameId]
EvictTimer(inst, gameId) == [kind |-> "evict", inst |-> inst, gameId |-> gameId]

(***************************************************************************)
(* MatchmakingService.addToQueue behind socket.on('join_queue').           *)
(* JoinAdd runs to the end of the zAdd, JoinPublish from there to the      *)
(* reply: a tick or another handler can run between the two.               *)
(***************************************************************************)
QueueEntry(player, playerId, gameMode, preferences, socketId, t) ==
    [id |-> playerId,
     username |-> player.username,
     rating |-> IF gameMode \in DOMAIN player.ratings
                       /\ player.ratings[gameMode] # 0
                THEN player.ratings[gameMode]
                ELSE DefaultRating,
     preferences |-> preferences,
     socketId |-> socketId,
     joinedAt |-> t,
     searchExpansion |-> 0]

JoinAdd(s, playerId, gameMode, preferences) ==
    /\ Listening
    /\ s \in connected
    /\ req[s] = Idle
    /\ Cardinality({x \in Sockets : req[x] # Idle}) < MaxInFlight
    /\ QueueSize < MaxQueue
    /\ LET player == getPlayer(playerId)
       IN  IF player = NoPlayer
           THEN \* throw new Error('Player not found'): the handler replies error
                /\ last' = [op |-> "join", gameMode |-> gameMode,
                            reply |-> "error",
                            published |-> FALSE, added |-> FALSE]
                /\ UNCHANGED <<queue, req, rated>>
           ELSE /\ queue' = [queue EXCEPT ![gameMode] = @ \cup
                      {Stringify(QueueEntry(player, playerId, gameMode,
                                            preferences, s, now))}]
                /\ req' = [req EXCEPT ![s] =
                      [pc |-> "publish", playerId |-> playerId,
                       gameMode |-> gameMode,
                       entry |-> Stringify(QueueEntry(player, playerId,
                                     gameMode, preferences, s, now))]]
                /\ last' = [op |-> "join_add"]
    /\ UNCHANGED <<rateLimit, allowCalls, verdicts,
                   ratingCalls, nCalls,
                   pending, refused, now, channel, players, leaderboard, games, activeGames,
                   timers, nextGame, connected, tick, updates, rated>>

JoinPublish(s) ==
    /\ req[s] # Idle
    /\ req' = [req EXCEPT ![s] = Idle]
    /\ refused' = IF PublishThrows
                  THEN (refused \cup {req[s].entry}) \cap Queued(queue)
                  ELSE refused \ {req[s].entry}
    /\ last' = [op |-> "join", gameMode |-> req[s].gameMode,
                reply |-> IF PublishThrows THEN "error" ELSE "queue_joined",
                published |-> ~PublishThrows, added |-> TRUE]
    /\ UNCHANGED <<rateLimit, allowCalls, verdicts,
                   ratingCalls, nCalls,
                   pending, now, channel, players, leaderboard, queue, games,
                   activeGames, timers, nextGame, connected, tick, updates, rated>>

(***************************************************************************)
(* MatchmakingService.removeFromQueue behind socket.on('leave_queue').     *)
(***************************************************************************)
\* The first member of the range whose id is playerId, as a set of 0 or 1.
FirstOf(members, playerId) ==
    {members[i] : i \in {i \in DOMAIN members :
        /\ Parse(members[i]).id = playerId
        /\ \A k \in 1..(i - 1) : Parse(members[k]).id # playerId}}

removeFromQueue(set, playerId) == set \ FirstOf(zRange(set), playerId)

LeaveQueue(s, playerId, gameMode) ==
    /\ Listening
    /\ s \in connected
    /\ queue' = [queue EXCEPT ![gameMode] = removeFromQueue(@, playerId)]
    /\ refused' = refused \cap Queued(queue')
    /\ last' = [op |-> "leave", playerId |-> playerId, gameMode |-> gameMode,
                reply |-> IF PublishThrows THEN "error" ELSE "queue_left",
                published |-> ~PublishThrows]
    /\ UNCHANGED <<rateLimit, allowCalls, verdicts,
                   ratingCalls, nCalls,
                   pending, now, channel, players, leaderboard, games, activeGames,
                   timers, nextGame, connected, tick, req, updates, rated>>

(***************************************************************************)
(* MatchmakingService.handlePlayerDisconnect behind socket.on('disconnect')*)
(***************************************************************************)
\* A variant of handlePlayerDisconnect that clears the queue it scans.
handlePlayerDisconnectAll(set, socketId) ==
    {member \in set : FALSE}

handlePlayerDisconnect(set, socketId) ==
    {member \in set : Parse(member).socketId # socketId}

Disconnect(s) ==
    /\ Listening
    /\ s \in connected
    /\ Cardinality(Sockets \ connected) < MaxDisconnects
    /\ connected' = connected \ {s}
    /\ queue' = [m \in QueueKeys |->
                   IF m \in Modes THEN handlePlayerDisconnect(queue[m], s)
                   ELSE queue[m]]
    /\ refused' = refused \cap Queued(queue')
    /\ last' = [op |-> "disconnect", socket |-> s]
    /\ UNCHANGED <<rateLimit, allowCalls, verdicts,
                   ratingCalls, nCalls,
                   pending, now, channel, players, leaderboard, games, activeGames,
                   timers, nextGame, tick, req, updates, rated>>

(***************************************************************************)
(* MatchmakingService.processMatchmaking, one call per tick slot.          *)
(*   TickRead        zRange, findMatches                                   *)
(*   TickCreateMatch createMatch of the next group: createGame, the        *)
(*                   match_found event, the bus publish                    *)
(*   TickRemove      one zRem of one member of that group                  *)
(* A store call that throws, or the publish throwing, lands in the catch   *)
(* block, which logs and ends the tick.                                    *)
(* The fields emitted and removed of a tick are history: the entries of    *)
(* the groups it emitted match_found for, and the entries it removed.      *)
(***************************************************************************)
GroupEntries(group) == {Stringify(group[i]) : i \in DOMAIN group}

TickRead(t, gameMode) ==
    /\ tick[t] = Idle
    /\ LET members == zRange(queue[gameMode])
           parsed == [i \in DOMAIN members |-> Parse(members[i])]
           matches == findMatches(parsed, gameMode, now)
       IN  IF Len(members) < MinMembers \/ matches = <<>>
           THEN /\ tick' = tick
                /\ last' = [op |-> "tick", gameMode |-> gameMode,
                            ended |-> "done", emitted |-> {}, removed |-> {}]
           ELSE /\ tick' = [tick EXCEPT ![t] =
                      [pc |-> "create", gameMode |-> gameMode,
                       matches |-> matches, k |-> 1, j |-> 1,
                       emitted |-> {}, removed |-> {}]]
                /\ last' = [op |-> "tick", gameMode |-> gameMode,
                            ended |-> "no", emitted |-> {}, removed |-> {}]
    /\ UNCHANGED <<rateLimit, allowCalls, verdicts,
                   ratingCalls, nCalls,
                   pending, refused, now, channel, players, leaderboard, queue, games,
                   activeGames, timers, nextGame, connected, req, updates, rated>>

\* RedisClient.zRange throws.
TickReadError(t, gameMode) ==
    /\ tick[t] = Idle
    /\ last' = [op |-> "tick", gameMode |-> gameMode, ended |-> "failed",
                emitted |-> {}, removed |-> {}]
    /\ UNCHANGED <<rateLimit, allowCalls, verdicts,
                   ratingCalls, nCalls,
                   pending, refused, now, channel, players, leaderboard, queue, games,
                   activeGames, timers, nextGame, connected, tick, req, updates, rated>>

\* What the match_found listener of the server sends: to each player of the
\* match whose socket is still connected.
MatchFoundRecipients(group) ==
    {group[i].socketId : i \in DOMAIN group} \cap connected

\* A variant of MatchFoundDeliveries that does not look the socket up.
MatchFoundDeliveriesAll(group) ==
    [k \in DOMAIN group |-> group[k].socketId]

\* The match_found messages of that listener in the order it sends them:
\* one per player of the match whose socket is connected, to that socket.
MatchFoundDeliveries(group) ==
    LET Connected(player) == player.socketId \in connected
        reached == SelectSeq(group, Connected)
    IN  [k \in DOMAIN reached |-> reached[k].socketId]

\* createMatch of the next group of tick t, while the ticks have started on
\* no more than maxGames first groups.
TickCreateMatchWithin(t, maxGames) ==
    /\ tick[t].pc = "create"
    /\ nextGame - (tick[t].k - 1) <= maxGames
    /\ tick[t].k <= MaxBatch
    /\ LET T == tick[t]
           group == T.matches[T.k]
           gameId == nextGame
           game == NewGame(gameId, group, T.gameMode, now)
           emitted == T.emitted \cup GroupEntries(group)
       IN  /\ nextGame' = nextGame + 1
           /\ games' = [games EXCEPT ![gameId] = game]
           /\ activeGames' = [activeGames EXCEPT !["mm"][gameId] = game]
           /\ timers' = timers \cup {StartTimer("mm", gameId)}
           /\ tick' = [tick EXCEPT ![t] =
                  IF PublishThrows THEN Idle
                  ELSE [T EXCEPT !.pc = "remove", !.j = 1, !.emitted = emitted]]
           /\ last' = [op |-> "match_found", gameMode |-> T.gameMode,
                       gameId |-> gameId, group |-> group,
                       recipients |-> MatchFoundRecipients(group),
                       deliveries |-> MatchFoundDeliveries(group),
                       published |-> ~PublishThrows,
                       ended |-> IF PublishThrows THEN "failed" ELSE "no",
                       emitted |-> emitted, removed |-> T.removed]
    /\ UNCHANGED <<rateLimit, allowCalls, verdicts,
                   ratingCalls, nCalls,
                   pending, refused, now, channel, players, leaderboard, queue, connected,
                   req, updates, rated>>

TickCreateMatch(t) == TickCreateMatchWithin(t, MaxGames)

TickRemove(t) ==
    /\ tick[t].pc = "remove"
    /\ LET T == tick[t]
           group == T.matches[T.k]
           playerStr == Stringify(group[T.j])
           removed == T.removed \cup {playerStr}
           lastOfGroup == T.j = Len(group)
           lastGroup == T.k = Len(T.matches)
       IN  /\ queue' = [queue EXCEPT ![T.gameMode] = @ \ {playerStr}]
           /\ refused' = refused \ {playerStr}
           /\ tick' = [tick EXCEPT ![t] =
                  IF lastOfGroup /\ lastGroup THEN Idle
                  ELSE IF lastOfGroup
                  THEN [T EXCEPT !.pc = "create", !.k = @ + 1, !.j = 1,
                                 !.removed = removed]
                  ELSE [T EXCEPT !.j = @ + 1, !.removed = removed]]
           /\ last' = [op |-> "tick", gameMode |-> T.gameMode,
                       ended |-> IF lastOfGroup /\ lastGroup THEN "done" ELSE "no",
                       emitted |-> T.emitted, removed |-> removed]
    /\ UNCHANGED <<rateLimit, allowCalls, verdicts,
                   ratingCalls, nCalls,
                   pending, now, channel, players, leaderboard, games, activeGames,
                   timers, nextGame, connected, req, updates, rated>>

\* The store call the tick is waiting for (the setEx of createGame, a zRem)
\* throws.
TickStoreError(t) ==
    /\ tick[t] # Idle
    /\ tick' = [tick EXCEPT ![t] = Idle]
    /\ last' = [op |-> "tick", gameMode |-> tick[t].gameMode,
                ended |-> "failed", emitted |-> tick[t].emitted,
                removed |-> tick[t].removed]
    /\ UNCHANGED <<rateLimit, allowCalls, verdicts,
                   ratingCalls, nCalls,
                   pending, refused, now, channel, players, leaderboard, queue, games,
                   activeGames, timers, nextGame, connected, req, updates, rated>>

(***************************************************************************)
(* The matchmaking specification: clients joining and leaving the queues   *)
(* and disconnecting, the bus coming and going, and the ticks.             *)
(***************************************************************************)
\* Player records as they stand after p2 won twice, p3 five times and p4
\* four times.
SeedRating(playerId) ==
    CASE playerId = "p1" -> 1000
      [] playerId = "p2" -> 1050
      [] playerId = "p3" -> 1130
      [] playerId = "p4" -> 1090

SeedWins(playerId) ==
    CASE playerId = "p1" -> 0
      [] playerId = "p2" -> 2
      [] playerId = "p3" -> 5
      [] playerId = "p4" -> 4

SeedPlayer(playerId) ==
    [NewPlayer(playerId, 0) EXCEPT
        !.ratings["chess"] = SeedRating(playerId),
        !.stats.gamesPlayed = SeedWins(playerId),
        !.stats.wins = SeedWins(playerId)]

\* The join_queue requests of the clients: socket, playerId, gameMode,
\* preferences.  Player p1 is also used from a second socket, s3, with other
\* preferences.
JoinInputs ==
    { <<"s1", "p1", "chess", NoPrefs>>,
      <<"s1", "p1", "rts", NoPrefs>>,
      <<"s2", "p2", "chess", NoPrefs>>,
      <<"s3", "p3", "chess", NoPrefs>>,
      <<"s3", "p1", "chess", [region |-> "", timeControl |-> "5+0"]>> }

\* The leave_queue requests: socket, playerId, gameMode.
LeaveInputs ==
    {<<"s1", "p1", "chess">>, <<"s2", "p2", "chess">>, <<"s1", "p1", "rts">>}

\* The modes whose ticks are followed: the queues of fps and moba stay empty
\* here, and a tick on an empty queue returns at once.
TickModes == {"chess", "rts"}

InitMM ==
    /\ now = 0
    /\ channel = "null"
    /\ players = [p \in PlayerIds |-> SeedPlayer(p)]
    /\ leaderboard = [key \in Modes \cup {"global"} |->
                        IF key = "global"
                        THEN {<<p, DefaultRating>> : p \in PlayerIds}
                        ELSE IF key = "chess"
                        THEN {<<p, SeedRating(p)>> : p \in {"p2", "p3"}}
                        ELSE {}]
    /\ queue = [m \in QueueKeys |-> {}]
    /\ games = [g \in GameIds |-> NoGame]
    /\ activeGames = [i \in Insts |-> [g \in GameIds |-> NoGame]]
    /\ timers = {}
    /\ nextGame = 1
    /\ connected = Sockets
    /\ tick = [t \in TickSlots |-> Idle]
    /\ req = [s \in Sockets |-> Idle]
    /\ updates = [i \in Insts |-> <<>>]
    /\ rated = [g \in GameIds |-> [p \in PlayerIds |-> 0]]
    /\ refused = {}
    /\ pending = <<>>
    /\ ratingCalls = [c \in CallSlots |-> Idle]
    /\ nCalls = 0
    /\ rateLimit = [identifier \in Identifiers |-> {}]
    /\ allowCalls = [c \in AllowSlots |-> Idle]
    /\ verdicts = <<>>
    /\ last = [op |-> "init"]

NextMM ==
    \/ Advance
    \/ BusConnect
    \/ BusClose
    \/ \E i \in JoinInputs : JoinAdd(i[1], i[2], i[3], i[4])
    \/ \E s \in Sockets : JoinPublish(s)
    \/ \E i \in LeaveInputs : LeaveQueue(i[1], i[2], i[3])
    \/ \E s \in Sockets : Disconnect(s)
    \/ \E t \in TickSlots, m \in TickModes : TickRead(t, m)
    \/ \E t \in TickSlots, m \in TickModes : TickReadError(t, m)
    \/ \E t \in TickSlots : TickCreateMatch(t)
    \/ \E t \in TickSlots : TickRemove(t)
    \/ \E t \in TickSlots : TickStoreError(t)

SpecMM == InitMM /\ [][NextMM]_vars

(***************************************************************************)
(* Claims about the matchmaking engine, checked under SpecMM.              *)
(***************************************************************************)
EntriesOf(gameMode, playerId) ==
    {e \in queue[gameMode] : Parse(e).id = playerId}

\* C1: after any sequence of join_queue, leave_queue, disconnect and tick
\* steps, a mode's queue holds at most one entry per playerId (a second
\* enqueue of a player supersedes the first).
C1_AtMostOneEntryPerPlayer ==
    \A m \in Modes, p \in PlayerIds : Cardinality(EntriesOf(m, p)) <= 1

\* C2: when match_found is emitted for a group in a mode, every entry of the
\* group has already been removed from that mode's queue.
C2_MatchFoundAfterDequeue ==
    last.op = "match_found" =>
        GroupEntries(last.group) \cap queue[last.gameMode] = {}

\* C9: a tick that fails leaves the queue as it was at its start, apart from
\* the groups it emitted match_found for, whose entries are all removed: no
\* entry of an emitted group is left in the queue, and the tick removed
\* nothing else.
C9_FailedTickQueue ==
    (last.op \in {"tick", "match_found"} /\ last.ended = "failed") =>
        /\ last.emitted \cap queue[last.gameMode] = {}
        /\ last.removed \subseteq last.emitted

\* C10: a bus publish that fails during enqueue, dequeue or match creation
\* does not fail the operation: the client gets the success reply, and the
\* tick goes on to remove the matched group as it does when the publish
\* succeeds.
C10_PublishFailureSwallowed ==
    /\ (last.op = "join" /\ last.added /\ ~last.published) =>
            last.reply = "queue_joined"
    /\ (last.op = "leave" /\ ~last.published) => last.reply = "queue_left"
    /\ (last.op = "match_found" /\ ~last.published) => last.ended # "failed"

\* C11: handling the disconnect of socket s removes, in each of the four
\* modes, exactly the entries whose socketId is s; the entries of other
\* sockets stay, and no match record, in the store or in memory, changes.
C11_DisconnectRemovesOwnEntries ==
    [][ \A s \in Sockets :
          (last'.op = "disconnect" /\ last'.socket = s)
          => /\ \A i \in 1..Len(GameModes) :
                   queue'[GameModes[i]]
                     = {e \in queue[GameModes[i]] : Parse(e).socketId # s}
             /\ UNCHANGED <<games, activeGames, timers, updates>> ]_vars

\* A disconnect handled while the join of its socket was between the zAdd
\* and the reply: the entry of the socket is gone, and an entry of another
\* socket is still queued.
C11_Witness ==
    /\ last.op = "disconnect"
    /\ \E m \in Modes : queue[m] # {}
    /\ \A m \in Modes : \A e \in queue[m] : Parse(e).socketId # last.socket
    /\ req[last.socket] # Idle

\* C12: no match_found is emitted for a group with an entry enqueued under
\* a socket whose disconnect has been handled, also when the tick had read
\* the queue before the disconnect.
C12_NoMatchAfterDisconnect ==
    last.op = "match_found" =>
        \A i \in DOMAIN last.group : last.group[i].socketId \in connected

\* C13: match_found for a match built from a client's entry is delivered to
\* that client only after the join_queue request that made the entry was
\* answered queue_joined.  Stated for the joins that have been answered: an
\* entry whose join handler has returned and that is in a group delivered
\* to its socket was answered queue_joined.
C13_QueueJoinedBeforeMatchFound ==
    last.op = "match_found" =>
        \A i \in DOMAIN last.group :
            LET s == last.group[i].socketId
                entry == Stringify(last.group[i])
            IN  ( /\ s \in last.recipients
                  /\ (req[s] = Idle \/ req[s].entry # entry) )
                => entry \notin refused

\* C15: match_found of a match goes only to sockets of participants of the
\* match, and exactly once for each participant whose socket is connected:
\* a socket gets as many match_found messages as it has participants in the
\* match when it is connected, and none otherwise.
C15_MatchFoundOncePerParticipant ==
    last.op = "match_found" =>
        \A s \in Sockets :
            Cardinality({k \in DOMAIN last.deliveries : last.deliveries[k] = s})
              = IF s \in connected
                THEN Cardinality({i \in DOMAIN last.group :
                                     last.group[i].socketId = s})
                ELSE 0

\* match_found has gone out for a match with one participant connected and
\* one whose socket has disconnected.
C15_Witness ==
    /\ last.op = "match_found"
    /\ last.deliveries # <<>>
    /\ \E i \in DOMAIN last.group : last.group[i].socketId \notin connected

\* C20: after removeFromQueue(p, m) completes, queue m holds no entry of
\* player p, the entries of the other players in m and the queues of the
\* other modes are unchanged; when p had no entry in m, no queue changes.
C20_DequeueRemovesPlayer ==
    [][ \A p \in PlayerIds, m \in Modes :
          (last'.op = "leave" /\ last'.playerId = p /\ last'.gameMode = m
             /\ last'.published)
          => /\ \A e \in queue'[m] : Parse(e).id # p
             /\ {e \in queue'[m] : Parse(e).id # p}
                  = {e \in queue[m] : Parse(e).id # p}
             /\ \A o \in Modes \ {m} : queue'[o] = queue[o]
             /\ (\A e \in queue[m] : Parse(e).id # p) => queue' = queue
      ]_vars

(***************************************************************************)
(* The join specification: the queue handlers alone, with requests for a   *)
(* mode that is none of the four.                                          *)
(***************************************************************************)
JoinModeInputs ==
    { <<"s1", "p1", "ctf", NoPrefs>>,
      <<"s1", "p1", "chess", NoPrefs>>,
      <<"s2", "p2", "ctf", [region |-> "eu", timeControl |-> ""]>>,
      <<"s2", "p2", "rts", NoPrefs>> }

NextJoin ==
    \/ BusConnect
    \/ BusClose
    \/ \E i \in JoinModeInputs : JoinAdd(i[1], i[2], i[3], i[4])
    \/ \E s \in Sockets : JoinPublish(s)
    \/ \E i \in LeaveInputs : LeaveQueue(i[1], i[2], i[3])
    \/ \E s \in Sockets : Disconnect(s)

SpecJoin == InitMM /\ [][NextJoin]_vars

\* C22: a join_queue for a mode outside fps, chess, moba, rts is answered
\* with an error and creates no entry under any queue key.
C22_UnknownModeRejected ==
    /\ \A k \in QueueKeys \ Modes : queue[k] = {}
    /\ (last.op = "join" /\ last.gameMode \notin Modes) => last.reply = "error"

(***************************************************************************)
(* The batch specification: ticks on a chess queue that already holds up   *)
(* to four entries, with the clock and the disconnects.                    *)
(***************************************************************************)
\* The entry addToQueue wrote for player p from socket s at time t.
SeedEntry(s, p, preferences, t) ==
    Stringify(QueueEntry(SeedPlayer(p), p, "chess", preferences, s, t))

Blitz == [region |-> "", timeControl |-> "5+0"]
Rapid == [region |-> "", timeControl |-> "10+0"]

\* The time of the first tick and the chess queue it finds.
BatchInputs ==
    { <<0, {SeedEntry("s1", "p1", NoPrefs, 0), SeedEntry("s2", "p2", NoPrefs, 0),
            SeedEntry("s3", "p3", NoPrefs, 0), SeedEntry("s3", "p4", NoPrefs, 0)}>>,
      <<0, {SeedEntry("s1", "p1", NoPrefs, 0), SeedEntry("s2", "p2", NoPrefs, 0)}>>,
      <<0, {SeedEntry("s1", "p1", NoPrefs, 0), SeedEntry("s2", "p2", NoPrefs, 0),
            SeedEntry("s3", "p4", NoPrefs, 0)}>>,
      <<0, {SeedEntry("s1", "p1", Blitz, 0), SeedEntry("s2", "p2", Rapid, 0),
            SeedEntry("s3", "p3", NoPrefs, 0), SeedEntry("s3", "p4", NoPrefs, 0)}>>,
      <<0, {SeedEntry("s1", "p1", Blitz, 0), SeedEntry("s2", "p2", Blitz, 0),
            SeedEntry("s3", "p4", Blitz, 0), SeedEntry("s1", "p3", Blitz, 0)}>>,
      <<StepMs, {SeedEntry("s1", "p1", NoPrefs, StepMs),
                 SeedEntry("s2", "p2", NoPrefs, 0),
                 SeedEntry("s3", "p3", NoPrefs, 4000),
                 SeedEntry("s3", "p4", NoPrefs, 0)}>>,
      <<StepMs, {SeedEntry("s1", "p1", NoPrefs, 4000),
                 SeedEntry("s2", "p2", NoPrefs, 0),
                 SeedEntry("s3", "p4", NoPrefs, 2000),
                 SeedEntry("s1", "p3", NoPrefs, 0)}>>,
      <<0, {SeedEntry("s1", "p1", NoPrefs, 0), SeedEntry("s3", "p1", Blitz, 0),
            SeedEntry("s2", "p2", NoPrefs, 0), SeedEntry("s3", "p4", NoPrefs, 0)}>> }

InitBatch ==
    /\ \E b \in BatchInputs :
          /\ now = b[1]
          /\ queue = [m \in QueueKeys |-> IF m = "chess" THEN b[2] ELSE {}]
    /\ channel = "open"
    /\ players = [p \in PlayerIds |-> SeedPlayer(p)]
    /\ leaderboard = [key \in Modes \cup {"global"} |->
                        IF key = "global"
                        THEN {<<p, DefaultRating>> : p \in PlayerIds}
                        ELSE IF key = "chess"
                        THEN {<<p, SeedRating(p)>> : p \in {"p2", "p3", "p4"}}
                        ELSE {}]
    /\ games = [g \in GameIds |-> NoGame]
    /\ activeGames = [i \in Insts |-> [g \in GameIds |-> NoGame]]
    /\ timers = {}
    /\ nextGame = 1
    /\ connected = Sockets
    /\ tick = [t \in TickSlots |-> Idle]
    /\ req = [s \in Sockets |-> Idle]
    /\ updates = [i \in Insts |-> <<>>]
    /\ rated = [g \in GameIds |-> [p \in PlayerIds |-> 0]]
    /\ refused = {}
    /\ pending = <<>>
    /\ ratingCalls = [c \in CallSlots |-> Idle]
    /\ nCalls = 0
    /\ rateLimit = [identifier \in Identifiers |-> {}]
    /\ allowCalls = [c \in AllowSlots |-> Idle]
    /\ verdicts = <<>>
    /\ last = [op |-> "init"]

NextBatch ==
    \/ Advance
    \/ \E s \in Sockets : Disconnect(s)
    \/ \E t \in TickSlots, m \in TickModes : TickRead(t, m)
    \/ \E t \in TickSlots : TickCreateMatch(t)
    \/ \E t \in TickSlots : TickRemove(t)

SpecBatch == InitBatch /\ [][NextBatch]_vars

\* The entries of a queue belong to distinct players and any two of them are
\* compatible at time t.
PairwiseCompatible(set, gameMode, t) ==
    \A a \in set : \A b \in set \ {a} :
        /\ Parse(a).id # Parse(b).id
        /\ arePlayersCompatible(Parse(a), Parse(b), gameMode, t)

AllEntries(matches) ==
    UNION {GroupEntries(matches[k]) : k \in DOMAIN matches}

\* C25: in chess, a tick that finds 2k entries of distinct players, any two
\* of them compatible, pairs all of them in k groups, each entry in one
\* group; and a tick that runs to its end has emitted a match for each of
\* its groups and removed their entries, so that the queue is then empty.
C25_AllPaired ==
    [][ /\ ( /\ last'.op = "tick" /\ last'.gameMode = "chess"
             /\ last'.ended # "failed"
             /\ \A u \in TickSlots : tick[u] # Idle => tick'[u] = tick[u]
             /\ Cardinality(queue["chess"]) >= 2
             /\ Cardinality(queue["chess"]) % 2 = 0
             /\ PairwiseCompatible(queue["chess"], "chess", now) )
           => \E t \in TickSlots :
                 /\ tick[t] = Idle /\ tick'[t] # Idle
                 /\ 2 * Len(tick'[t].matches) = Cardinality(queue["chess"])
                 /\ \A k \in DOMAIN tick'[t].matches :
                       Len(tick'[t].matches[k]) = 2
                 /\ AllEntries(tick'[t].matches) = queue["chess"]
        /\ \A t \in TickSlots :
             ( /\ tick[t] # Idle /\ tick'[t] = Idle
               /\ last'.op = "tick" /\ last'.ended = "done" )
             => /\ tick[t].k = Len(tick[t].matches)
                /\ last'.emitted = AllEntries(tick[t].matches)
                /\ last'.removed = AllEntries(tick[t].matches)
                /\ queue'[tick[t].gameMode] \cap AllEntries(tick[t].matches) = {}
                /\ nextGame' >= 1 + Len(tick[t].matches)
      ]_vars

\* A tick has paired four players, any two of them compatible, in two
\* matches and left the queue empty.
C25_Witness ==
    /\ last.op = "tick" /\ last.ended = "done"
    /\ Cardinality(last.removed) = 4
    /\ PairwiseCompatible(last.removed, "chess", now)
    /\ queue["chess"] = {}
    /\ \A g \in 1..2 : games[g] # NoGame /\ Len(games[g].players) = 2
    /\ \A p \in PlayerIds :
          \E g \in 1..2 : \E i \in 1..2 : games[g].players[i].id = p

(***************************************************************************)
(* The retry specification: the ticks of the 2-second interval on a chess  *)
(* queue that is not joined or left any more, with the bus going down and  *)
(* store calls failing, so that a tick follows a tick that failed.  Each   *)
(* player has been enqueued once.                                          *)
(***************************************************************************)
InitRetry == InitBatch /\ Cardinality(queue["chess"]) < 2 * MaxBatch

NextRetry ==
    \/ Advance
    \/ BusClose
    \/ \E s \in Sockets : Disconnect(s)
    \/ \E t \in TickSlots, m \in TickModes : TickRead(t, m)
    \/ \E t \in TickSlots : TickCreateMatchWithin(t, MaxGames + 1)
    \/ \E t \in TickSlots : TickRemove(t)
    \/ \E t \in TickSlots : TickStoreError(t)

SpecRetry == InitRetry /\ [][NextRetry]_vars

\* The game sessions created with player p among their players; createMatch
\* emits one match_found for each session it creates.
SessionsOf(p) ==
    {g \in GameIds : /\ games[g] # NoGame
                     /\ \E i \in DOMAIN games[g].players :
                           games[g].players[i].id = p}

\* C33: no queue entry is used for more than one match: across the ticks of
\* a mode, overlapping ones and ones that follow a failed tick included, a
\* single enqueue of a player leads to at most one game session and one
\* match_found.
C33_EntryMatchedOnce ==
    \A p \in PlayerIds : Cardinality(SessionsOf(p)) <= 1

(***************************************************************************)
(* GameService.  Its handlers are taken whole: getGame through the last    *)
(* statement, or through the statement that throws.                        *)
(***************************************************************************)
NoWinner == "null"

\* getGame: the hot reference, else the record in Redis (NoGame for null).
GetGame(inst, gameId) ==
    IF activeGames[inst][gameId] # NoGame THEN activeGames[inst][gameId]
    ELSE games[gameId]

\* getGame keeps what it loaded: this.activeGames.set(gameId, game).
Loaded(inst, gameId) ==
    IF GetGame(inst, gameId) = NoGame THEN activeGames
    ELSE [activeGames EXCEPT ![inst][gameId] = GetGame(inst, gameId)]

\* The GameService instances whose game_update events the server forwards
\* to the room of the match: this.gameService.on('game_update', ...).
Listeners == {"srv"}

Emit(inst, event) == [updates EXCEPT ![inst] = Append(@, event)]

\* setTimeout(() => this.startGame(gameId), 5000) fires.
StartGame(inst, gameId) ==
    /\ StartTimer(inst, gameId) \in timers
    /\ Len(updates[inst]) < MaxLog
    /\ timers' = timers \ {StartTimer(inst, gameId)}
    /\ LET game == GetGame(inst, gameId)
           started == [game EXCEPT !.status = "active", !.startedAt = Some(now)]
       IN  IF game = NoGame
           THEN UNCHANGED <<games, activeGames, updates>>
           ELSE /\ games' = [games EXCEPT ![gameId] = started]
                /\ activeGames' = [activeGames EXCEPT ![inst][gameId] = started]
                /\ updates' = Emit(inst, [gameId |-> gameId,
                                          type |-> "game_started"])
    /\ last' = [op |-> "start", inst |-> inst, gameId |-> gameId]
    /\ UNCHANGED <<rateLimit, allowCalls, verdicts,
                   ratingCalls, nCalls,
                   pending, refused, now, channel, players, leaderboard, queue, nextGame,
                   connected, tick, req, rated>>

\* A variant of RatingCalls that rates each participant against its own
\* rating in the match record.
RatingCallsOwnRating(game, winnerId) ==
    LET player1 == game.players[1]
        player2 == game.players[2]
    IN  IF winnerId = player1.id
        THEN << [id |-> player1.id, opponentRating |-> player1.rating, result |-> "win"],
                [id |-> player2.id, opponentRating |-> player2.rating, result |-> "loss"] >>
        ELSE IF winnerId = player2.id
        THEN << [id |-> player2.id, opponentRating |-> player2.rating, result |-> "win"],
                [id |-> player1.id, opponentRating |-> player1.rating, result |-> "loss"] >>
        ELSE << [id |-> player1.id, opponentRating |-> player1.rating, result |-> "draw"],
                [id |-> player2.id, opponentRating |-> player2.rating, result |-> "draw"] >>

\* The updatePlayerRating calls of endGame, in order.
RatingCalls(game, winnerId) ==
    LET player1 == game.players[1]
        player2 == game.players[2]
    IN  IF winnerId = player1.id
        THEN << [id |-> player1.id, opponentRating |-> player2.rating, result |-> "win"],
                [id |-> player2.id, opponentRating |-> player1.rating, result |-> "loss"] >>
        ELSE IF winnerId = player2.id
        THEN << [id |-> player2.id, opponentRating |-> player1.rating, result |-> "win"],
                [id |-> player1.id, opponentRating |-> player2.rating, result |-> "loss"] >>
        ELSE << [id |-> player1.id, opponentRating |-> player2.rating, result |-> "draw"],
                [id |-> player2.id, opponentRating |-> player1.rating, result |-> "draw"] >>

\* endGame rates chess matches of two players only.
IsRated(game) == game.gameMode = "chess" /\ Len(game.players) = 2

\* The calls from the i-th on, on the store st = [players, leaderboard]; done
\* collects the players updated; a call for an absent record throws
\* 'Player not found' and the later calls are not made.
RECURSIVE ApplyRatings(_, _, _, _, _)
ApplyRatings(calls, i, st, gameMode, t) ==
    IF i > Len(calls) THEN st
    ELSE LET c == calls[i]
             player == st.players[c.id]
             updated == RatedPlayer(player, gameMode, c.opponentRating, c.result, t)
         IN  IF player = NoPlayer THEN [st EXCEPT !.threw = TRUE]
             ELSE ApplyRatings(calls, i + 1,
                    [players |-> [st.players EXCEPT ![c.id] = updated],
                     leaderboard |-> [st.leaderboard EXCEPT ![gameMode] =
                         zAddScore(@, c.id, updated.ratings[gameMode])],
                     done |-> st.done \cup {c.id},
                     threw |-> FALSE],
                    gameMode, t)

\* endGame(gameId, winnerId, reason) on a game it found: what it leaves.
\* The status, endedAt and result are set on the object in activeGames
\* before the first await; the store is written and game_ended emitted only
\* when no rating update threw.
EndEffectOn(inst, game, winnerId, reason) ==
    LET gameId == game.id
        finished == [game EXCEPT !.status = "finished",
                                 !.endedAt = Some(now),
                                 !.result = Some([winnerId |-> winnerId,
                                                  reason |-> reason])]
        st0 == [players |-> players, leaderboard |-> leaderboard,
                done |-> {}, threw |-> FALSE]
        st == IF IsRated(game)
              THEN ApplyRatings(RatingCalls(game, winnerId), 1, st0,
                                game.gameMode, now)
              ELSE st0
    IN  [players |-> st.players,
         leaderboard |-> st.leaderboard,
         done |-> st.done,
         threw |-> st.threw,
         activeGames |-> [activeGames EXCEPT ![inst][gameId] = finished],
         games |-> IF st.threw THEN games
                   ELSE [games EXCEPT ![gameId] = finished],
         updates |-> IF st.threw THEN updates
                     ELSE Emit(inst, [gameId |-> gameId, type |-> "game_ended",
                                      result |-> finished.result[1]]),
         timers |-> IF st.threw THEN timers
                    ELSE timers \cup {EvictTimer(inst, gameId)}]

EndEffect(inst, gameId, winnerId, reason) ==
    EndEffectOn(inst, GetGame(inst, gameId), winnerId, reason)

Rate(gameId, done) ==
    [rated EXCEPT ![gameId] =
        [p \in PlayerIds |-> IF p \in done THEN @[p] + 1 ELSE @[p]]]

\* A call of endGame from outside the socket handlers (a finished, timed out
\* or abandoned match).
EndGame(inst, gameId, winnerId, reason) ==
    /\ Len(updates[inst]) < MaxLog
    /\ \A p \in PlayerIds : rated[gameId][p] < MaxRated
    /\ IF GetGame(inst, gameId) = NoGame
       THEN /\ last' = [op |-> "end", inst |-> inst, gameId |-> gameId,
                        winnerId |-> winnerId, outcome |-> "no_game"]
            /\ UNCHANGED <<players, leaderboard, games, activeGames, timers,
                           updates, rated>>
       ELSE LET e == EndEffect(inst, gameId, winnerId, reason)
            IN  /\ players' = e.players
                /\ leaderboard' = e.leaderboard
                /\ games' = e.games
                /\ activeGames' = e.activeGames
                /\ timers' = e.timers
                /\ updates' = e.updates
                /\ rated' = Rate(gameId, e.done)
                /\ last' = [op |-> "end", inst |-> inst, gameId |-> gameId,
                            winnerId |-> winnerId,
                            outcome |-> IF e.threw THEN "threw" ELSE "ended"]
    /\ UNCHANGED <<rateLimit, allowCalls, verdicts,
                   ratingCalls, nCalls,
                   pending, refused, now, channel, queue, nextGame, connected, tick, req>>

\* setTimeout(() => this.activeGames.delete(gameId), 60000) fires.
Evict(inst, gameId) ==
    /\ EvictTimer(inst, gameId) \in timers
    /\ timers' = timers \ {EvictTimer(inst, gameId)}
    /\ activeGames' = [activeGames EXCEPT ![inst][gameId] = NoGame]
    /\ last' = [op |-> "evict", inst |-> inst, gameId |-> gameId]
    /\ UNCHANGED <<rateLimit, allowCalls, verdicts,
                   ratingCalls, nCalls,
                   pending, refused, now, channel, players, leaderboard, queue, games, nextGame,
                   connected, tick, req, updates, rated>>

(***************************************************************************)
(* GameService.handleGameAction behind socket.on('game_action'), on the    *)
(* GameService instance of the server.                                     *)
(***************************************************************************)
\* A variant of IsActive that lets a match through before it has started.
IsActiveLoose(game) == game.status # "finished"

IsActive(game) == game.status = "active"

\* game.players.find(p => p.socketId === socketId): the positions that match.
FindPlayer(game, socketId) ==
    {i \in DOMAIN game.players : game.players[i].socketId = socketId}

First(I) == CHOOSE i \in I : \A k \in I : i <= k

\* The broadcast of an accepted action; "none" when the action is unknown in
\* the mode (logged) or the mode has no handler.
RelayType(gameMode, action) ==
    CASE gameMode = "chess" /\ action = "move" -> "move"
      [] gameMode = "fps" /\ action = "position_update" -> "player_position"
      [] gameMode = "fps" /\ action = "shoot" -> "player_shoot"
      [] OTHER -> "none"

\* The event of a relayed action; handleChessAction destructures the payload
\* and handleFPSAction reads its fields, so an undefined payload throws.
RelayEvent(game, player, action, payload, t) ==
    [gameId |-> game.id, type |-> RelayType(game.gameMode, action),
     playerId |-> player.id, payload |-> payload, timestamp |-> t]

Drop(label) ==
    /\ last' = label
    /\ UNCHANGED <<players, leaderboard, games, timers, updates, rated>>

\* handleGameAction from the return of getGame on: game is what getGame
\* returned, from memory or from the store (via), and what it has put in
\* activeGames when it loaded it.  overtaken is history: an action of the
\* match that arrived later has been relayed already.
Act(s, gameId, action, payload, game, via, overtaken) ==
    LET Label(outcome, reply) ==
            [op |-> "action", socket |-> s, gameId |-> gameId,
             outcome |-> outcome, reply |-> reply, via |-> via,
             overtaken |-> overtaken]
        loaded == [activeGames EXCEPT !["srv"][gameId] = game]
    IN  IF game = NoGame
        THEN Drop(Label("no_game", "none")) /\ UNCHANGED activeGames
        ELSE IF ~IsActive(game)
        THEN Drop(Label("not_active", "none")) /\ activeGames' = loaded
        ELSE IF FindPlayer(game, s) = {}
        THEN Drop(Label("not_participant", "none")) /\ activeGames' = loaded
        ELSE LET player == game.players[First(FindPlayer(game, s))]
             IN  IF game.gameMode = "chess" /\ action = "resign"
                 THEN \* await this.endGame(game.id, player.id, 'resignation')
                      LET e == EndEffectOn("srv", game, player.id, "resignation")
                      IN  /\ players' = e.players
                          /\ leaderboard' = e.leaderboard
                          /\ games' = e.games
                          /\ activeGames' = e.activeGames
                          /\ timers' = e.timers
                          /\ updates' = e.updates
                          /\ rated' = Rate(gameId, e.done)
                          /\ last' = IF e.threw
                                     THEN Label("resign_threw", "error")
                                     ELSE Label("resigned", "none")
                 ELSE IF RelayType(game.gameMode, action) = "none"
                 THEN Drop(Label("unhandled", "none")) /\ activeGames' = loaded
                 ELSE IF payload = "undefined"
                 THEN \* TypeError: caught by the socket handler
                      Drop(Label("threw", "error")) /\ activeGames' = loaded
                 ELSE /\ updates' = Emit("srv",
                             RelayEvent(game, player, action, payload, now))
                      /\ activeGames' = loaded
                      /\ last' = Label("relayed", "none")
                      /\ UNCHANGED <<players, leaderboard, games, timers, rated>>

\* The game_action handler up to the return of getGame.  With the match in
\* activeGames getGame returns without leaving the event loop and the handler
\* runs on; otherwise the handler waits for the reply of the store, behind
\* the getGame calls already waiting.
HandleGameAction(s, gameId, action, payload) ==
    /\ Listening
    /\ s \in connected
    /\ Len(updates["srv"]) < MaxLog
    /\ \A p \in PlayerIds : rated[gameId][p] < MaxRated
    /\ IF activeGames["srv"][gameId] = NoGame
       THEN /\ Len(pending) < MaxPending
            /\ pending' = Append(pending,
                   [socket |-> s, gameId |-> gameId, action |-> action,
                    payload |-> payload, overtaken |-> FALSE])
            /\ last' = [op |-> "action_get", socket |-> s, gameId |-> gameId]
            /\ UNCHANGED <<players, leaderboard, games, activeGames, timers,
                           updates, rated>>
       ELSE /\ Act(s, gameId, action, payload, activeGames["srv"][gameId],
                   "memory", FALSE)
            /\ pending' = IF last'.outcome # "relayed" THEN pending
                          ELSE [i \in DOMAIN pending |->
                                  IF pending[i].gameId = gameId
                                  THEN [pending[i] EXCEPT !.overtaken = TRUE]
                                  ELSE pending[i]]
    /\ UNCHANGED <<rateLimit, allowCalls, verdicts,
                   ratingCalls, nCalls,
                   refused, now, channel, queue, nextGame, connected, tick, req>>

\* The reply of the store to the oldest waiting getGame: the handler runs on
\* with the record the store holds.
GetGameReply ==
    /\ pending # <<>>
    /\ Len(updates["srv"]) < MaxLog
    /\ \A p \in PlayerIds : rated[Head(pending).gameId][p] < MaxRated
    /\ LET r == Head(pending)
       IN  Act(r.socket, r.gameId, r.action, r.payload, games[r.gameId],
               "store", r.overtaken)
    /\ pending' = Tail(pending)
    /\ UNCHANGED <<rateLimit, allowCalls, verdicts,
                   ratingCalls, nCalls,
                   refused, now, channel, queue, nextGame, connected, tick, req>>

(***************************************************************************)
(* The session specification: matches created as createMatch creates      *)
(* them, their timers, the actions of the clients, endGame, and player     *)
(* records running out of their TTL.  The clock stands still in it: the    *)
(* GameService writes timestamps and never reads one back, and its timers  *)
(* fire whenever they are pending.                                         *)
(***************************************************************************)
\* createMatch: this.gameService.createGame(gameId, players, gameMode) on the
\* GameService instance of the MatchmakingService, for a group of entries of
\* players whose records exist.
CreateGame(group, gameMode) ==
    /\ nextGame <= MaxGames
    /\ \A i \in DOMAIN group : players[group[i][2]] # NoPlayer
    /\ LET entries == [i \in DOMAIN group |->
                QueueEntry(players[group[i][2]], group[i][2], gameMode,
                           NoPrefs, group[i][1], now)]
           game == NewGame(nextGame, entries, gameMode, now)
       IN  /\ games' = [games EXCEPT ![nextGame] = game]
           /\ activeGames' = [activeGames EXCEPT !["mm"][nextGame] = game]
    /\ timers' = timers \cup {StartTimer("mm", nextGame)}
    /\ nextGame' = nextGame + 1
    /\ last' = [op |-> "create", gameId |-> nextGame]
    /\ UNCHANGED <<rateLimit, allowCalls, verdicts,
                   ratingCalls, nCalls,
                   pending, refused, now, channel, players, leaderboard, queue, connected, tick,
                   req, updates, rated>>

\* The key player:<id> expires (setEx 86400).
PlayerExpire(playerId) ==
    /\ players[playerId] # NoPlayer
    /\ Cardinality({p \in PlayerIds : players[p] = NoPlayer}) < MaxExpired
    /\ players' = [players EXCEPT ![playerId] = NoPlayer]
    /\ last' = [op |-> "expire"]
    /\ UNCHANGED <<rateLimit, allowCalls, verdicts,
                   ratingCalls, nCalls,
                   pending, refused, now, channel, leaderboard, queue, games, activeGames,
                   timers, nextGame, connected, tick, req, updates, rated>>

\* The groups matches are created from: socket and player of each member.
GroupInputs == { <<"chess", << <<"s1", "p1">>, <<"s2", "p2">> >> >>,
                 <<"rts", << <<"s1", "p1">>, <<"s2", "p2">> >> >> }
\* The game ids the clients and the callers of endGame name.
GameInputs == 1..MaxGames
WinnerInputs == {"p1", "p2", NoWinner}
ReasonInputs == {"completed"}
\* The game_action messages followed along with the endGame calls.
ResignInputs ==
    { <<"s1", "resign", "undefined">>, <<"s2", "move", "e7e5">> }

\* The game_action messages: socket, action, payload.  s3 is no participant,
\* offer_draw has no case in handleChessAction, and a move without a payload
\* throws.
ActionInputs ==
    { <<"s1", "move", "e2e4">>, <<"s2", "move", "e7e5">>,
      <<"s1", "resign", "undefined">>, <<"s2", "offer_draw", "undefined">>,
      <<"s2", "move", "undefined">>, <<"s3", "move", "e2e4">> }
ExpireInputs == {"p1", "p2"}

InitGame ==
    /\ now = 0
    /\ channel = "open"
    /\ players = [p \in PlayerIds |-> SeedPlayer(p)]
    /\ leaderboard = [key \in Modes \cup {"global"} |->
                        IF key = "global"
                        THEN {<<p, DefaultRating>> : p \in PlayerIds}
                        ELSE IF key = "chess"
                        THEN {<<p, SeedRating(p)>> : p \in {"p2", "p3"}}
                        ELSE {}]
    /\ queue = [m \in QueueKeys |-> {}]
    /\ games = [g \in GameIds |-> NoGame]
    /\ activeGames = [i \in Insts |-> [g \in GameIds |-> NoGame]]
    /\ timers = {}
    /\ nextGame = 1
    /\ connected = Sockets
    /\ tick = [t \in TickSlots |-> Idle]
    /\ req = [s \in Sockets |-> Idle]
    /\ updates = [i \in Insts |-> <<>>]
    /\ rated = [g \in GameIds |-> [p \in PlayerIds |-> 0]]
    /\ refused = {}
    /\ pending = <<>>
    /\ ratingCalls = [c \in CallSlots |-> Idle]
    /\ nCalls = 0
    /\ rateLimit = [identifier \in Identifiers |-> {}]
    /\ allowCalls = [c \in AllowSlots |-> Idle]
    /\ verdicts = <<>>
    /\ last = [op |-> "init"]

NextGame ==
    \/ \E i \in GroupInputs : CreateGame(i[2], i[1])
    \/ \E inst \in Insts, g \in GameInputs : StartGame(inst, g)
    \/ \E g \in GameInputs, a \in ResignInputs :
          HandleGameAction(a[1], g, a[2], a[3])
    \/ GetGameReply
    \/ \E inst \in Insts, g \in GameInputs, w \in WinnerInputs,
          r \in ReasonInputs : EndGame(inst, g, w, r)
    \/ \E inst \in Insts, g \in GameInputs : Evict(inst, g)
    \/ \E p \in ExpireInputs : PlayerExpire(p)

SpecGame == InitGame /\ [][NextGame]_vars

\* C17: once the rating updates of an endGame call have returned, the
\* leaderboard of the mode lists each updated player with the rating in the
\* player's stored record.
C17_LeaderboardFresh ==
    ( /\ last.op = "end" /\ last.outcome = "ended"
      /\ IsRated(GetGame(last.inst, last.gameId)) )
    => LET lb == getLeaderboard("chess", LeaderboardLimit)
           game == GetGame(last.inst, last.gameId)
       IN  /\ ~lb.threw
           /\ \A i \in DOMAIN game.players :
                \E k \in DOMAIN lb.list :
                    /\ lb.list[k].playerId = game.players[i].id
                    /\ lb.list[k].rating
                         = players[game.players[i].id].ratings["chess"]

(***************************************************************************)
(* The relay specification: the game_action messages of the clients of a   *)
(* match and the getGame calls they wait on, with the timers of the match. *)
(* endGame is called by a resign only, as in the server.                   *)
(***************************************************************************)
NextRelay ==
    \/ \E i \in GroupInputs : CreateGame(i[2], i[1])
    \/ \E inst \in Insts, g \in GameInputs : StartGame(inst, g)
    \/ \E g \in GameInputs, a \in ActionInputs :
          HandleGameAction(a[1], g, a[2], a[3])
    \/ GetGameReply
    \/ \E inst \in Insts, g \in GameInputs : Evict(inst, g)

SpecRelay == InitGame /\ [][NextRelay]_vars

(***************************************************************************)
(* Claims about the game session manager, checked under SpecGame.          *)
(***************************************************************************)
\* An end call has been made on the match: endGame marks the object it holds
\* finished before anything else.
Ended(gameId) ==
    \E inst \in Insts :
        /\ GetGame(inst, gameId) # NoGame
        /\ GetGame(inst, gameId).status = "finished"

\* C3: for a chess match of two players, over any sequence of end calls
\* (repeated or partially failing ones included), the rating of each
\* participant is updated exactly once.
C3_RatedExactlyOnce ==
    \A g \in GameIds :
        (games[g] # NoGame /\ IsRated(games[g]) /\ Ended(g)) =>
            \A i \in DOMAIN games[g].players :
                rated[g][games[g].players[i].id] = 1

\* C4: end on a match that is already finished changes nothing: not its
\* record (result, endedAt), no player record, no leaderboard, and no
\* further game_ended is emitted.
C4_EndOnFinishedIsNoOp ==
    [][ \A inst \in Insts, g \in GameIds :
          ( /\ last'.op = "end" /\ last'.inst = inst /\ last'.gameId = g
            /\ GetGame(inst, g) # NoGame
            /\ GetGame(inst, g).status = "finished" )
          => /\ UNCHANGED <<players, leaderboard, games, updates>>
             /\ GetGame(inst, g)' = GetGame(inst, g) ]_vars

StatusRank(status) ==
    CASE status = "starting" -> 1
      [] status = "active" -> 2
      [] status = "finished" -> 3

\* C5: the status of a match only moves starting -> active -> finished, in
\* the store and in the memory of each instance, and start on a match that
\* is already active or finished leaves the record alone and emits nothing.
C5_StatusOnlyForward ==
    [][ \A g \in GameIds :
          /\ (games[g] # NoGame) =>
                StatusRank(games'[g].status) >= StatusRank(games[g].status)
          /\ \A inst \in Insts :
                (activeGames[inst][g] # NoGame /\ activeGames'[inst][g] # NoGame)
                => StatusRank(activeGames'[inst][g].status)
                      >= StatusRank(activeGames[inst][g].status)
          /\ ( /\ last'.op = "start" /\ last'.gameId = g
               /\ GetGame(last'.inst, g) # NoGame
               /\ GetGame(last'.inst, g).status \in {"active", "finished"} )
             => UNCHANGED <<games, updates>> ]_vars

\* C6: a resign of participant p in an active chess match of two finishes
\* the match with reason resignation and the other participant as winner.
C6_ResignOpponentWins ==
    (last.op = "action" /\ last.outcome = "resigned") =>
        LET game == activeGames["srv"][last.gameId]
            i == First(FindPlayer(game, last.socket))
        IN  /\ game.status = "finished"
            /\ game.result = Some([winnerId |-> game.players[3 - i].id,
                                   reason |-> "resignation"])

\* The match object the game_action handler that has just run got from
\* getGame.
ActGame(g) ==
    IF last'.via = "store" THEN games[g] ELSE activeGames["srv"][g]

\* The match object the endGame call that has just run worked on.
EndedGame(inst, g) ==
    IF last'.op = "action" THEN ActGame(g) ELSE GetGame(inst, g)

\* The step just taken was a call endGame(g, w) on instance inst: one from
\* outside, or the one handleChessAction makes for a resign.
EndCalled(inst, g, w) ==
    \/ /\ last'.op = "end"
       /\ last'.inst = inst /\ last'.gameId = g /\ last'.winnerId = w
    \/ /\ last'.op = "action"
       /\ last'.outcome \in {"resigned", "resign_threw"}
       /\ inst = "srv" /\ last'.gameId = g
       /\ ActGame(g) # NoGame
       /\ FindPlayer(ActGame(g), last'.socket) # {}
       /\ w = ActGame(g).players[
                 First(FindPlayer(ActGame(g), last'.socket))].id

ResultFor(playerId, otherId, w) ==
    IF w = playerId THEN "win" ELSE IF w = otherId THEN "loss" ELSE "draw"

\* C7: end(g, w) on a chess match of two whose player records exist: the
\* record of participant w gets a win and the other's a loss, with w null
\* both get a draw, and each new rating is computed from the player's own
\* stored rating against the other participant's rating in the match.
C7_EndRatesAgainstOther ==
    [][ \A inst \in Insts, g \in GameIds, w \in PlayerIds \cup {NoWinner} :
          ( /\ EndCalled(inst, g, w)
            /\ EndedGame(inst, g) # NoGame
            /\ IsRated(EndedGame(inst, g))
            /\ \A i \in 1..2 :
                  players[EndedGame(inst, g).players[i].id] # NoPlayer )
          => \A i \in 1..2 :
                LET p == EndedGame(inst, g).players[i]
                    o == EndedGame(inst, g).players[3 - i]
                    res == ResultFor(p.id, o.id, w)
                    old == players[p.id]
                    new == players'[p.id]
                IN  /\ new # NoPlayer
                    /\ new.ratings["chess"]
                          = NewRating(old.ratings["chess"], o.rating, res)
                    /\ new.stats.gamesPlayed = old.stats.gamesPlayed + 1
                    /\ new.stats.wins
                          = old.stats.wins + (IF res = "win" THEN 1 ELSE 0)
                    /\ new.stats.losses
                          = old.stats.losses + (IF res = "loss" THEN 1 ELSE 0)
                    /\ new.stats.draws
                          = old.stats.draws + (IF res = "draw" THEN 1 ELSE 0) ]_vars

\* An end call with winner p2 has rated a chess match of two.
C7_Witness ==
    /\ last.op = "end" /\ last.outcome = "ended" /\ last.winnerId = "p2"
    /\ GetGame(last.inst, last.gameId) # NoGame
    /\ IsRated(GetGame(last.inst, last.gameId))
    /\ rated[last.gameId]["p2"] = 1
    /\ players["p2"].stats.wins = SeedWins("p2") + 1

\* handleGameAction returns at once for the action of socket s on match g.
Dropped(s, g) ==
    LET game == ActGame(g)
    IN  \/ game = NoGame
        \/ game.status # "active"
        \/ \A i \in DOMAIN game.players : game.players[i].socketId # s

C14_RelayInArrivalOrder ==
    (last.op = "action" /\ last.outcome = "relayed") => ~last.overtaken

\* C16: every update a GameService instance emits for a match is forwarded
\* to the participants, and an action of a participant on a match that has
\* become active is not dropped as not active.
C16_UpdatesDelivered ==
    /\ \A inst \in Insts : updates[inst] # <<>> => inst \in Listeners
    /\ (last.op = "action" /\ last.outcome = "not_active") =>
          games[last.gameId].status # "active"

\* An endGame call on the match has run to its end on the instance (it has
\* emitted game_ended there) and the eviction timer it set has fired.
Evicted(inst, gameId) ==
    /\ \E k \in DOMAIN updates[inst] :
          /\ updates[inst][k].gameId = gameId
          /\ updates[inst][k].type = "game_ended"
    /\ EvictTimer(inst, gameId) \notin timers

\* C31: a match that has finished is removed from the activeGames map of
\* the instance that ended it when its eviction timer fires, and the map
\* does not hold it again afterwards.
C31_EvictedIsTerminal ==
    \A inst \in Insts, g \in GameIds :
        Evicted(inst, g) => activeGames[inst][g] = NoGame

(***************************************************************************)
(* The player store specification: createPlayer and updatePlayerRating     *)
(* called directly, several updatePlayerRating calls at a time.  A call    *)
(* runs in three stretches: getPlayer and the computation of the new       *)
(* record, the setEx of the record, the zAdd on the leaderboard.           *)
(***************************************************************************)
\* EloCalculator.calculateNewRating: Math.round(Math.max(100, r)) of the
\* unrounded new rating r, which is the larger of 100 and Math.round(r).
calculateNewRating(playerRating, opponentRating, result) ==
    Max(RatingFloor,
        playerRating + RatingDelta(playerRating, opponentRating, result))

\* createPlayer(username, gameMode): uuidv4 gives an id not in use.
CreatePlayer(playerId, gameMode) ==
    /\ players[playerId] = NoPlayer
    /\ players' = [players EXCEPT ![playerId] = NewPlayer(playerId, now)]
    /\ leaderboard' = [leaderboard EXCEPT !["global"] =
           zAddScore(@, playerId, NewPlayer(playerId, now).ratings[gameMode])]
    /\ last' = [op |-> "create_player", id |-> playerId]
    /\ UNCHANGED <<rateLimit, allowCalls, verdicts,
                   ratingCalls, nCalls,
                   pending, refused, now, channel, queue, games,
                   activeGames, timers, nextGame, connected, tick, req,
                   updates, rated>>

UpdateRead(c, playerId, gameMode, opponentRating, result) ==
    /\ ratingCalls[c] = Idle
    /\ nCalls < MaxStarted
    /\ nCalls' = nCalls + 1
    /\ LET player == getPlayer(playerId)
       IN  IF player = NoPlayer
           THEN \* throw new Error('Player not found')
                /\ ratingCalls' = ratingCalls
                /\ last' = [op |-> "update", call |-> c, outcome |-> "threw"]
           ELSE /\ ratingCalls' = [ratingCalls EXCEPT ![c] =
                      [pc |-> "setEx", id |-> playerId, gameMode |-> gameMode,
                       opponentRating |-> opponentRating, result |-> result,
                       read |-> player,
                       player |-> RatedPlayer(player, gameMode, opponentRating,
                                              result, now)]]
                /\ last' = [op |-> "update_read", call |-> c]
    /\ UNCHANGED <<rateLimit, allowCalls, verdicts,
                   pending, refused, now, channel, players, leaderboard, queue,
                   games, activeGames, timers, nextGame, connected, tick, req,
                   updates, rated>>

UpdateSetEx(c) ==
    /\ ratingCalls[c] # Idle
    /\ ratingCalls[c].pc = "setEx"
    /\ players' = [players EXCEPT ![ratingCalls[c].id] = ratingCalls[c].player]
    /\ ratingCalls' = [ratingCalls EXCEPT ![c].pc = "zAdd"]
    /\ last' = [op |-> "update_setEx", call |-> c]
    /\ UNCHANGED <<rateLimit, allowCalls, verdicts,
                   nCalls, pending, refused, now, channel, leaderboard, queue,
                   games, activeGames, timers, nextGame, connected, tick, req,
                   updates, rated>>

UpdateZAdd(c) ==
    /\ ratingCalls[c] # Idle
    /\ ratingCalls[c].pc = "zAdd"
    /\ leaderboard' = [leaderboard EXCEPT ![ratingCalls[c].gameMode] =
           zAddScore(@, ratingCalls[c].id,
                     ratingCalls[c].player.ratings[ratingCalls[c].gameMode])]
    /\ ratingCalls' = [ratingCalls EXCEPT ![c] = Idle]
    /\ last' = [op |-> "update", call |-> c, outcome |-> "returned",
                id |-> ratingCalls[c].id, gameMode |-> ratingCalls[c].gameMode,
                read |-> ratingCalls[c].read, player |-> ratingCalls[c].player,
                opponentRating |-> ratingCalls[c].opponentRating,
                result |-> ratingCalls[c].result]
    /\ UNCHANGED <<rateLimit, allowCalls, verdicts,
                   nCalls, pending, refused, now, channel, players, queue,
                   games, activeGames, timers, nextGame, connected, tick, req,
                   updates, rated>>

\* The stats of a player whose rating has moved from 1000 to rating: ten
\* points a game, by wins or by losses.
SeedStats(rating) ==
    LET n == Abs(rating - DefaultRating) \div 10
    IN  [gamesPlayed |-> n,
         wins |-> IF rating > DefaultRating THEN n ELSE 0,
         losses |-> IF rating < DefaultRating THEN n ELSE 0,
         draws |-> 0]

\* The chess ratings p1 starts with, the opponent ratings and results of
\* the calls, and the players they are made for (p3 has no record).
RatingInputs == {100, 110, 1000, 2400}
OpponentInputs == {100, 2400}
ResultInputs == {"win", "loss", "draw"}
UpdateInputs == {"p1", "p3"}
CreateInputs == {"p2"}

InitPlayer ==
    /\ now = 0
    /\ channel = "open"
    /\ \E r \in RatingInputs :
          /\ players = [p \in PlayerIds |->
                IF p = "p1"
                THEN [NewPlayer(p, 0) EXCEPT !.ratings["chess"] = r,
                                             !.stats = SeedStats(r)]
                ELSE NoPlayer]
          /\ leaderboard = [key \in Modes \cup {"global"} |->
                IF key = "global" THEN {<<"p1", DefaultRating>>}
                ELSE IF key = "chess" /\ r # DefaultRating THEN {<<"p1", r>>}
                ELSE {}]
    /\ queue = [m \in QueueKeys |-> {}]
    /\ games = [g \in GameIds |-> NoGame]
    /\ activeGames = [i \in Insts |-> [g \in GameIds |-> NoGame]]
    /\ timers = {}
    /\ nextGame = 1
    /\ connected = Sockets
    /\ tick = [t \in TickSlots |-> Idle]
    /\ req = [s \in Sockets |-> Idle]
    /\ updates = [i \in Insts |-> <<>>]
    /\ rated = [g \in GameIds |-> [p \in PlayerIds |-> 0]]
    /\ refused = {}
    /\ pending = <<>>
    /\ ratingCalls = [c \in CallSlots |-> Idle]
    /\ nCalls = 0
    /\ rateLimit = [identifier \in Identifiers |-> {}]
    /\ allowCalls = [c \in AllowSlots |-> Idle]
    /\ verdicts = <<>>
    /\ last = [op |-> "init"]

NextPlayer ==
    \/ \E p \in CreateInputs : CreatePlayer(p, "fps")
    \/ \E c \in CallSlots, p \in UpdateInputs, o \in OpponentInputs,
          r \in ResultInputs : UpdateRead(c, p, "chess", o, r)
    \/ \E c \in CallSlots : UpdateSetEx(c)
    \/ \E c \in CallSlots : UpdateZAdd(c)

SpecPlayer == InitPlayer /\ [][NextPlayer]_vars

(***************************************************************************)
(* Claims about the player store, checked under SpecPlayer.                *)
(***************************************************************************)
\* C18: in every stored player record, after any createPlayer and
\* updatePlayerRating calls, interleaved ones on one player included,
\* gamesPlayed = wins + losses + draws.
C18_CounterLaw ==
    \A p \in PlayerIds :
        players[p] # NoPlayer =>
            players[p].stats.gamesPlayed
              = players[p].stats.wins + players[p].stats.losses
                  + players[p].stats.draws

\* Two updatePlayerRating calls on one player have read the same record; one
\* has stored its record and the other is about to store its own over it.
C18_Witness ==
    \E c, d \in CallSlots :
        /\ c # d /\ ratingCalls[c] # Idle /\ ratingCalls[d] # Idle
        /\ ratingCalls[c].id = ratingCalls[d].id
        /\ ratingCalls[c].read = ratingCalls[d].read
        /\ ratingCalls[c].pc = "zAdd" /\ ratingCalls[d].pc = "setEx"
        /\ players[ratingCalls[c].id] = ratingCalls[c].player

\* C19: after any updatePlayerRating the rating of the player for the mode
\* is at least 100, whatever the prior rating, the opponent's rating and the
\* result; the client-side EloCalculator gives at least 100 as well.
C19_RatingFloor ==
    (last.op = "update" /\ last.outcome = "returned") =>
        /\ last.player.ratings[last.gameMode] >= RatingFloor
        /\ calculateNewRating(last.read.ratings[last.gameMode],
                              last.opponentRating, last.result) >= RatingFloor
        /\ \A p \in PlayerIds :
              players[p] # NoPlayer =>
                  players[p].ratings[last.gameMode] >= RatingFloor

\* A loss at rating 110 against an opponent rated 100: the new rating would
\* be below 100 and is held at 100.
C19_Witness ==
    /\ last.op = "update" /\ last.outcome = "returned"
    /\ last.result = "loss"
    /\ last.read.ratings[last.gameMode] = 110
    /\ last.player.ratings[last.gameMode] = RatingFloor

\* C32: updatePlayerRating calls for one player that interleave at their
\* store reads and writes are all applied: the record each call stores
\* counts one game more than the record it replaces, and once the calls
\* have returned the leaderboard of the mode holds the player at the rating
\* of the stored record.
C32_ConcurrentUpdatesApplied ==
    [][ /\ \A c \in CallSlots :
              (last'.op = "update_setEx" /\ last'.call = c) =>
                  players'[ratingCalls[c].id].stats.gamesPlayed
                    = players[ratingCalls[c].id].stats.gamesPlayed + 1
        /\ ( /\ last'.op = "update" /\ last'.outcome = "returned"
             /\ \A c \in CallSlots : ratingCalls'[c] = Idle )
           => <<last'.id, players'[last'.id].ratings[last'.gameMode]>>
                 \in leaderboard'[last'.gameMode] ]_vars

(***************************************************************************)
(* POST /api/players: the route handler with createPlayer behind it.  A    *)
(* name is a sequence of characters; the body carries it or leaves it out. *)
(***************************************************************************)
Printable(ch) == ch \notin {"\t", " "}
PrintableLen(name) == Len(SelectSeq(name, Printable))

\* Whether a body's username has the two printable characters a name needs.
ValidName(username) ==
    username # Undefined /\ PrintableLen(username[1]) >= 2

\* createPlayer(username, gameMode = 'fps') as the route calls it: username
\* goes into the record as it came (JSON.stringify leaves out an undefined
\* one), and a body without gameMode takes the default.
PostPlayers(playerId, username, gameMode) ==
    /\ players[playerId] = NoPlayer
    /\ LET mode == IF gameMode = Undefined THEN "fps" ELSE gameMode[1]
           player == [NewPlayer(playerId, now) EXCEPT !.username = username]
       IN  /\ players' = [players EXCEPT ![playerId] = player]
           /\ leaderboard' = [leaderboard EXCEPT !["global"] =
                  zAddScore(@, playerId, player.ratings[mode])]
           /\ last' = [op |-> "post_players", id |-> playerId,
                       username |-> username, status |-> 200]
    /\ UNCHANGED <<rateLimit, allowCalls, verdicts,
                   ratingCalls, nCalls, pending, refused, now, channel, queue,
                   games, activeGames, timers, nextGame, connected, tick, req,
                   updates, rated>>

\* The bodies sent: no username, '', 'a', a tab and 'a', 'al'; with and
\* without a gameMode.
NameInputs ==
    {Undefined, Some(<<>>), Some(<<"a">>), Some(<<"\t", "a">>),
     Some(<<"a", "l">>)}
PostModeInputs == {Undefined, Some("chess")}
PostIdInputs == {"p2", "p3"}

\* A getLeaderboard(gameMode, limit) call, with what it returns or throws.
GetLeaderboard(gameMode, limit) ==
    /\ last' = [op |-> "leaderboard", gameMode |-> gameMode, limit |-> limit,
                threw |-> getLeaderboard(gameMode, limit).threw,
                list |-> getLeaderboard(gameMode, limit).list]
    /\ UNCHANGED <<rateLimit, allowCalls, verdicts,
                   ratingCalls, nCalls, pending, refused, now, channel, players,
                   leaderboard, queue, games, activeGames, timers, nextGame,
                   connected, tick, req, updates, rated>>

LeaderboardInputs == {<<"global", LeaderboardLimit>>, <<"chess", 1>>}

NextRoutes ==
    \/ \E p \in PostIdInputs, u \in NameInputs, m \in PostModeInputs :
          PostPlayers(p, u, m)
    \/ \E i \in LeaderboardInputs : GetLeaderboard(i[1], i[2])

SpecRoutes == InitPlayer /\ [][NextRoutes]_vars

(***************************************************************************)
(* Claims about the routes, checked under SpecRoutes.                      *)
(***************************************************************************)
\* C21: POST /api/players with a name of fewer than two printable
\* characters, an empty or a missing name included, fails and persists
\* neither a player record nor a leaderboard entry.
C21_ShortNameRejected ==
    [][ \A u \in NameInputs :
          (last'.op = "post_players" /\ last'.username = u /\ ~ValidName(u))
          => /\ last'.status = 400
             /\ UNCHANGED <<players, leaderboard>> ]_vars

\* C23: getLeaderboard returns the entries in falling order of rating with
\* ranks 1, 2, 3, ...: the k-th entry returned has rank k, also when members
\* of the leaderboard set have no player record.
C23_LeaderboardDenseRanks ==
    last.op = "leaderboard" =>
        /\ ~last.threw
        /\ \A k \in DOMAIN last.list : last.list[k].rank = k
        /\ \A k \in DOMAIN last.list : \A j \in DOMAIN last.list :
              k < j => last.list[k].rating >= last.list[j].rating

(***************************************************************************)
(* The rating specification: updatePlayerRating taken as a function of the *)
(* stored rating, the opponent's rating and the result, on a grid of       *)
(* ratings.                                                                *)
(***************************************************************************)
RatingGrid == {100, 110, 500, 1000, 1024, 1200, 1720, 2400}

\* The record updatePlayerRating returns for a player whose chess rating is
\* currentRating.
RateOnce(currentRating, opponentRating, result) ==
    /\ last' = [op |-> "rated", currentRating |-> currentRating,
                opponentRating |-> opponentRating, result |-> result,
                newRating |->
                    RatedPlayer([NewPlayer("p1", now) EXCEPT
                                    !.ratings["chess"] = currentRating],
                                "chess", opponentRating, result,
                                now).ratings["chess"]]
    /\ UNCHANGED <<rateLimit, allowCalls, verdicts,
                   ratingCalls, nCalls, pending, refused, now, channel, players,
                   leaderboard, queue, games, activeGames, timers, nextGame,
                   connected, tick, req, updates, rated>>

NextRating ==
    \E c \in RatingGrid, o \in RatingGrid, r \in ResultInputs : RateOnce(c, o, r)

SpecRating == InitPlayer /\ [][NextRating]_vars

\* C24: updatePlayerRating with result win never lowers the player's rating
\* in the mode, and raises it whenever the opponent's rating is at least the
\* player's (1000 against 1200 gives 1024).
C24_WinNeverLowers ==
    (last.op = "rated" /\ last.result = "win") =>
        /\ last.newRating >= last.currentRating
        /\ last.opponentRating >= last.currentRating
             => last.newRating > last.currentRating
        /\ (last.currentRating = 1000 /\ last.opponentRating = 1200)
             => last.newRating = 1024

\* The win of a player rated 1000 over an opponent rated 1200.
C24_Witness ==
    /\ last.op = "rated" /\ last.result = "win"
    /\ last.currentRating = 1000 /\ last.opponentRating = 1200
    /\ last.newRating = 1024

(***************************************************************************)
(* The compatibility specification: arePlayersCompatible taken as a        *)
(* function of two queue entries, the mode and the time of the call, while *)
(* the clock moves on.                                                     *)
(***************************************************************************)
\* A parsed queue entry.
Entry(id, rating, preferences, joinedAt) ==
    [id |-> id, username |-> Username(id), rating |-> rating,
     preferences |-> preferences, socketId |-> "s1", joinedAt |-> joinedAt,
     searchExpansion |-> 0]

CompatEntries ==
    { Entry("p1", 1000, NoPrefs, 0),
      Entry("p2", 1500, NoPrefs, 0),
      Entry("p3", 1100, [region |-> "eu", timeControl |-> ""], 0),
      Entry("p4", 1101, [region |-> "us", timeControl |-> ""], 2000),
      Entry("p1", 1130, Blitz, 10000),
      Entry("p2", 1050, Rapid, 0),
      Entry("p3", 1090, Blitz, 0),
      Entry("p4", 1060, [region |-> "eu", timeControl |-> "5+0"], 0) }

\* The times at which calls are made.
CallTimes == {0, 2000, 9999, 10000, 20000, 170000}

\* Time passes between two calls.
Wait(t) ==
    /\ t > now
    /\ now' = t
    /\ last' = [op |-> "wait", from |-> now]
    /\ UNCHANGED <<rateLimit, allowCalls, verdicts,
                   ratingCalls, nCalls, pending, refused, channel, players,
                   leaderboard, queue, games, activeGames, timers, nextGame,
                   connected, tick, req, updates, rated>>

\* One call of arePlayersCompatible on two entries that are in the queue.
Compatible(player1, player2, gameMode) ==
    /\ player1.joinedAt <= now /\ player2.joinedAt <= now
    /\ last' = [op |-> "compatible", player1 |-> player1, player2 |-> player2,
                gameMode |-> gameMode, at |-> now,
                result |-> arePlayersCompatible(player1, player2, gameMode, now)]
    /\ UNCHANGED <<rateLimit, allowCalls, verdicts,
                   ratingCalls, nCalls, pending, refused, now, channel, players,
                   leaderboard, queue, games, activeGames, timers, nextGame,
                   connected, tick, req, updates, rated>>

NextCompat ==
    \/ \E t \in CallTimes : Wait(t)
    \/ \E a \in CompatEntries, b \in CompatEntries, m \in Modes :
          Compatible(a, b, m)

SpecCompat == InitGame /\ [][NextCompat]_vars

(***************************************************************************)
(* Claims about compatibility, checked under SpecCompat.                   *)
(***************************************************************************)
\* The rating gate as the specification words it.
RatingGate(a, b, t) ==
    Abs(a.rating - b.rating)
      <= 100 + 30 * (Max(t - a.joinedAt, t - b.joinedAt) \div 10000)

\* C27: two entries pass the rating gate exactly when the difference of
\* their ratings is at most 100 + 30 * floor(maxWait / 10 s), maxWait being
\* the longer of their two waits: where no preference is looked at (moba,
\* rts) the call answers exactly that, and in no mode does a pair pass that
\* the gate stops; 1000 and 1500 are not compatible after 2 s and are after
\* 170 s.
C27_RatingGate ==
    last.op = "compatible" =>
        /\ last.result => RatingGate(last.player1, last.player2, last.at)
        /\ last.gameMode \in {"moba", "rts"}
             => (last.result <=> RatingGate(last.player1, last.player2, last.at))
        /\ ( /\ {last.player1.rating, last.player2.rating} = {1000, 1500}
             /\ last.player1.joinedAt = 0 /\ last.player2.joinedAt = 0 )
             => /\ last.at = 2000 => ~last.result
                /\ last.at = 170000 => last.result

\* The entries rated 1000 and 1500 have been found compatible after 170 s.
C27_Witness ==
    /\ last.op = "compatible" /\ last.result
    /\ last.player1.rating = 1000 /\ last.player2.rating = 1500
    /\ last.at = 170000 /\ last.gameMode = "chess"
    /\ ~arePlayersCompatible(last.player1, last.player2, "chess", 2000)

\* C28: arePlayersCompatible(a, b, mode) = arePlayersCompatible(b, a, mode)
\* for all entries, modes and times of the call.
C28_Symmetric ==
    last.op = "compatible" =>
        last.result = arePlayersCompatible(last.player2, last.player1,
                                           last.gameMode, last.at)

\* A chess pair of which only the first names a time control, joined at
\* different times, found compatible.
C28_Witness ==
    /\ last.op = "compatible" /\ last.result /\ last.gameMode = "chess"
    /\ last.player1.preferences.timeControl # ""
    /\ last.player2.preferences.timeControl = ""
    /\ last.player1.joinedAt # last.player2.joinedAt

\* C29: two entries that are compatible at one time are compatible at every
\* later time, as long as both are in the queue.
C29_MonotoneInWait ==
    [][ now' > now =>
          \A a \in CompatEntries, b \in CompatEntries, m \in Modes :
              ( /\ a.joinedAt <= now /\ b.joinedAt <= now
                /\ arePlayersCompatible(a, b, m, now) )
              => arePlayersCompatible(a, b, m, now') ]_vars

\* Time has passed over a pair that was compatible before, and over a pair
\* that was not and now is.
C29_Witness ==
    /\ last.op = "wait" /\ now > last.from
    /\ \E a \in CompatEntries, b \in CompatEntries :
          /\ a.id # b.id /\ a.joinedAt <= last.from /\ b.joinedAt <= last.from
          /\ arePlayersCompatible(a, b, "chess", last.from)
          /\ arePlayersCompatible(a, b, "chess", now)
    /\ \E a \in CompatEntries, b \in CompatEntries :
          /\ a.joinedAt <= last.from /\ b.joinedAt <= last.from
          /\ ~arePlayersCompatible(a, b, "chess", last.from)
          /\ arePlayersCompatible(a, b, "chess", now)

\* Both entries lack the preference or both carry the same value.
SamePreference(x, y) == (x = "" /\ y = "") \/ (x # "" /\ x = y)

\* C30: among the pairs the rating gate lets through, fps lets a pair
\* through exactly when both entries lack a region or both carry the same
\* one, chess likewise with timeControl, and moba and rts let every such
\* pair through.
C30_PreferenceGate ==
    ( /\ last.op = "compatible"
      /\ Abs(last.player1.rating - last.player2.rating)
           <= maxRatingDiff(Max(last.at - last.player1.joinedAt,
                                last.at - last.player2.joinedAt)) )
    => CASE last.gameMode = "fps" ->
              last.result <=> SamePreference(last.player1.preferences.region,
                                             last.player2.preferences.region)
         [] last.gameMode = "chess" ->
              last.result <=>
                  SamePreference(last.player1.preferences.timeControl,
                                 last.player2.preferences.timeControl)
         [] OTHER -> last.result

(***************************************************************************)
(* The grouping specification: findMatches taken as a function of the list *)
(* of parsed entries, the mode and the time of the call.                   *)
(***************************************************************************)
\* Entries of few players for the modes of two, in every order of three.
PairEntries ==
    { Entry("p1", 1000, NoPrefs, 2000),
      Entry("p2", 1050, NoPrefs, 0),
      Entry("p3", 1500, NoPrefs, 0),
      Entry("p4", 1120, Blitz, 0),
      Entry("p1", 1040, Rapid, 0) }

PairLists ==
    { <<a, b, c>> : a \in PairEntries, b \in PairEntries, c \in PairEntries }

\* Entries of many players for the modes of ten: the i-th of n joined the
\* later the smaller i is, and the one at position odd, when there is one,
\* is rated far above the others.
CrowdIds ==
    << "f1", "f2", "f3", "f4", "f5", "f6", "f7", "f8", "f9", "f10", "f11",
       "f12", "f13", "f14", "f15", "f16", "f17", "f18", "f19", "f20" >>

Crowd(n, odd, preferences) ==
    [i \in 1..n |->
        Entry(CrowdIds[i], IF i = odd THEN 1500 ELSE 1000 + 5 * i,
              IF i = 2 THEN preferences ELSE NoPrefs, (n - i) * 100)]

CrowdLists ==
    { Crowd(9, 0, NoPrefs), Crowd(10, 0, NoPrefs), Crowd(11, 0, NoPrefs),
      Crowd(11, 3, NoPrefs), Crowd(10, 4, NoPrefs), Crowd(20, 0, NoPrefs),
      Crowd(10, 0, [region |-> "eu", timeControl |-> ""]),
      Crowd(11, 0, [region |-> "eu", timeControl |-> ""]),
      << Entry("f1", 1000, [region |-> "us", timeControl |-> ""], 0) >>
          \o Crowd(10, 0, [region |-> "eu", timeControl |-> ""]) }

\* One call of findMatches; the entries have joined by then.
FindMatches(list, gameMode) ==
    /\ \A i \in DOMAIN list : list[i].joinedAt <= now
    /\ last' = [op |-> "find", players |-> list, gameMode |-> gameMode,
                at |-> now, matches |-> findMatches(list, gameMode, now)]
    /\ UNCHANGED <<rateLimit, allowCalls, verdicts,
                   ratingCalls, nCalls, pending, refused, now, channel, players,
                   leaderboard, queue, games, activeGames, timers, nextGame,
                   connected, tick, req, updates, rated>>

NextFind ==
    \/ \E t \in CallTimes : Wait(t)
    \/ \E list \in PairLists, m \in {"chess", "rts"} : FindMatches(list, m)
    \/ \E list \in CrowdLists, m \in {"fps", "moba"} : FindMatches(list, m)

SpecFind == InitGame /\ [][NextFind]_vars

\* The places of the groups: group and position.
Places(matches) ==
    UNION {{<<k, i>> : i \in 1..Len(matches[k])} : k \in DOMAIN matches}

\* C26: findMatches returns groups of exactly 10 entries in fps and moba and
\* of exactly 2 in chess and rts, taken from its input; no player id is in
\* two groups or twice in one; the first member of a group, its seed, joined
\* no later than the others and each of the others is compatible with it;
\* and an entry that is compatible with no entry of another player is in no
\* group.
C26_GroupsWellFormed ==
    last.op = "find" =>
        LET ms == last.matches
            size == IF last.gameMode \in {"fps", "moba"} THEN 10 ELSE 2
        IN  /\ \A k \in DOMAIN ms : Len(ms[k]) = size
            /\ \A x \in Places(ms) : ms[x[1]][x[2]] \in Range(last.players)
            /\ \A x \in Places(ms) : \A y \in Places(ms) \ {x} :
                  ms[x[1]][x[2]].id # ms[y[1]][y[2]].id
            /\ \A k \in DOMAIN ms : \A i \in 2..Len(ms[k]) :
                  /\ ms[k][1].joinedAt <= ms[k][i].joinedAt
                  /\ arePlayersCompatible(ms[k][1], ms[k][i], last.gameMode,
                                          last.at)
            /\ \A e \in Range(last.players) :
                  (\A o \in Range(last.players) :
                      o.id # e.id
                      => ~arePlayersCompatible(e, o, last.gameMode, last.at))
                  => \A x \in Places(ms) : ms[x[1]][x[2]] # e

\* findMatches has made a group of ten from eleven fps entries that came in
\* another order than they joined, and left out the one that is compatible
\* with none.
C26_Witness ==
    /\ last.op = "find" /\ last.gameMode = "fps"
    /\ Len(last.players) = 11 /\ Len(last.matches) = 1
    /\ last.players[1].joinedAt > last.players[2].joinedAt
    /\ \E e \in Range(last.players) :
          /\ \A x \in Places(last.matches) : last.matches[x[1]][x[2]] # e
          /\ \A o \in Range(last.players) :
                o.id # e.id => ~arePlayersCompatible(e, o, "fps", last.at)

(***************************************************************************)
(* RateLimiter.  isAllowed runs in three stretches, one up to each await   *)
(* that matters: the zRemRangeByScore, the zCard, and the zAdd with the    *)
(* return of true.  The expire that follows the zAdd lets the key go only  *)
(* when a whole window has passed since the last admitted request, when    *)
(* the zRemRangeByScore of the next call would empty the set anyway.       *)
(***************************************************************************)
\* new RateLimiter(windowMs, maxRequests): a window of one clock advance.
windowMs == StepMs
maxRequests == MaxAllowed

\* ZREMRANGEBYSCORE key min max: both ends inclusive.
zRemRangeByScore(set, min, max) ==
    {e \in set : ~(min <= e[2] /\ e[2] <= max)}

zCard(set) == Cardinality(set)

\* The clock moves on by a millisecond.
Millisecond ==
    /\ now % StepMs < MaxMs
    /\ now' = now + 1
    /\ last' = [op |-> "ms"]
    /\ UNCHANGED <<rateLimit, allowCalls, verdicts,
                   ratingCalls, nCalls,
                   pending, refused, channel, players, leaderboard, queue, games, activeGames,
                   timers, nextGame, connected, tick, req, updates, rated>>

\* isAllowed(identifier) through the zRemRangeByScore: now is read once, here.
AllowRemove(c, identifier) ==
    /\ allowCalls[c] = Idle
    /\ Len(verdicts) + Cardinality({d \in AllowSlots : allowCalls[d] # Idle})
          < MaxChecked
    /\ rateLimit' = [rateLimit EXCEPT ![identifier] =
           zRemRangeByScore(@, 0, now - windowMs)]
    /\ allowCalls' = [allowCalls EXCEPT ![c] =
           [pc |-> "zCard", identifier |-> identifier, now |-> now]]
    /\ last' = [op |-> "allow_remove", call |-> c]
    /\ UNCHANGED <<verdicts, ratingCalls, nCalls,
                   pending, refused, now, channel, players, leaderboard, queue, games,
                   activeGames, timers, nextGame, connected, tick, req, updates, rated>>

\* The zCard and the return of false when the window is full.
AllowCount(c) ==
    /\ allowCalls[c].pc = "zCard"
    /\ LET call == allowCalls[c]
           requestCount == zCard(rateLimit[call.identifier])
       IN  IF requestCount >= maxRequests
           THEN /\ allowCalls' = [allowCalls EXCEPT ![c] = Idle]
                /\ verdicts' = Append(verdicts,
                       [identifier |-> call.identifier, at |-> call.now,
                        allowed |-> FALSE])
                /\ last' = [op |-> "allow", call |-> c, allowed |-> FALSE]
           ELSE /\ allowCalls' = [allowCalls EXCEPT ![c].pc = "zAdd"]
                /\ verdicts' = verdicts
                /\ last' = [op |-> "allow_count", call |-> c]
    /\ UNCHANGED <<rateLimit, ratingCalls, nCalls,
                   pending, refused, now, channel, players, leaderboard, queue, games,
                   activeGames, timers, nextGame, connected, tick, req, updates, rated>>

\* The zAdd of { score: now, value: String(now) } and the return of true.
\* String is one-to-one on the integers: the member is held as the number.
AllowAdd(c) ==
    /\ allowCalls[c].pc = "zAdd"
    /\ LET call == allowCalls[c]
       IN  /\ rateLimit' = [rateLimit EXCEPT ![call.identifier] =
                  zAddScore(@, call.now, call.now)]
           /\ verdicts' = Append(verdicts,
                  [identifier |-> call.identifier, at |-> call.now,
                   allowed |-> TRUE])
    /\ allowCalls' = [allowCalls EXCEPT ![c] = Idle]
    /\ last' = [op |-> "allow", call |-> c, allowed |-> TRUE]
    /\ UNCHANGED <<ratingCalls, nCalls,
                   pending, refused, now, channel, players, leaderboard, queue, games,
                   activeGames, timers, nextGame, connected, tick, req, updates, rated>>

(***************************************************************************)
(* The limiter specification: requests of two addresses passing through    *)
(* the middleware, several at a time, while the clock moves.               *)
(***************************************************************************)
NextLimiter ==
    \/ Advance
    \/ Millisecond
    \/ \E c \in AllowSlots, identifier \in Identifiers :
          AllowRemove(c, identifier)
    \/ \E c \in AllowSlots : AllowCount(c)
    \/ \E c \in AllowSlots : AllowAdd(c)

SpecLimiter == InitGame /\ [][NextLimiter]_vars

\* The requests of the identifier admitted in the window that ends with the
\* request that came at time t.
AdmittedInWindow(identifier, t) ==
    {k \in DOMAIN verdicts :
        /\ verdicts[k].allowed
        /\ verdicts[k].identifier = identifier
        /\ t - windowMs < verdicts[k].at /\ verdicts[k].at <= t}

\* C34: isAllowed admits at most maxRequests requests of one identifier
\* within any window of windowMs, also when its calls run concurrently or
\* come in the same millisecond, and what the sorted set of an identifier
\* records are admitted requests only.
C34_WindowLimit ==
    \A identifier \in Identifiers :
        /\ \A k \in DOMAIN verdicts :
              Cardinality(AdmittedInWindow(identifier, verdicts[k].at))
                <= maxRequests
        /\ \A e \in rateLimit[identifier] :
              \E k \in DOMAIN verdicts :
                  /\ verdicts[k].allowed
                  /\ verdicts[k].identifier = identifier
                  /\ verdicts[k].at = e[2]
====
